---- MODULE Spec2Model ----
(***************************************************************************)
(* A model of the bitbrowser-script repository:                            *)
(*   - CDPClient (bitbrowser_api.py, cloudflare_bypass_bitbrowser.py): the *)
(*     request/response client over one WebSocket connection;              *)
(*   - EmailUtils.save_suffix (email_utils.py): the de-duplicating JSON    *)
(*     store of mail suffixes;                                             *)
(*   - BitBrowserAPI (bitbrowser_api.py): create/open/close window and     *)
(*     find_websocket, as functions of what the local HTTP API answers.    *)
(* Each part has a specification of its own; the variables of the other    *)
(* parts stay at their initial values.                                     *)
(***************************************************************************)
EXTENDS Integers, Sequences, FiniteSets, TLC

VARIABLES
    \* ---- CDPClient, one connection
    cdpId,      \* self._id
    calls,      \* number of send() calls started on the connection
    pc,         \* position of the caller: "idle", "loop" (the while test), "recv"
    wsOpen,     \* the WebSocket is still connected
    inbox,      \* messages the peer has sent and recv() has not delivered yet
    now,        \* seconds since the current call computed its deadline
    recvStart,  \* value of now when the current recv() started
    result,     \* what the last send() call gave its caller
    via,        \* the statement of send() that ended the last call
    sent,       \* requests put on the wire: <<call number, id>>
    nextSer,    \* serial number of the next message the peer sends
    discarded,  \* messages read by recv() and dropped: [ser, id, call]
    returned,   \* messages returned by send(): [ser, id, call]
    \* ---- EmailUtils.save_suffix
    sfFile,     \* content of email_suffixes.json
    sfEmail,    \* argument of the last save_suffix call
    sfRet,      \* return value of the last save_suffix call
    sfLog,      \* the branch of save_suffix the last call printed
    sfWrote,    \* the last call opened the file for writing
    \* ---- BitBrowserAPI
    apiOp,      \* the function called last
    apiIn,      \* what the HTTP exchange of that call produced
    apiEnv,     \* for find_websocket: what /json/version answers on each port
    apiRet,     \* what the function gave its caller
    mainPc,     \* augment_register.main, steps 2 to 4
    mainWs,     \* the ws_url main hands to CDPClient
    \* ---- EmailUtils.generate_random_email(s)
    gnOp,       \* the function called, and where its loop stands
    gnLen,      \* argument username_length
    gnNums,     \* argument use_numbers
    gnDots,     \* argument use_dots
    gnCount,    \* argument count of generate_random_emails
    gnI,        \* iterations of generate_random_emails done so far
    gnEmails,   \* the list generate_random_emails is building
    gnRet,      \* what the function gave its caller
    \* ---- augment_register.get_verification_code_from_email
    vcPc,       \* where the function stands: "loop", "done", "raised"
    vcAttempt,  \* the loop variable attempt
    vcRequests, \* requests made to the mailbox so far
    vcLast,     \* what the last request produced
    vcRet,      \* what the function gave its caller
    \* ---- augment_register.wait_for_onboard_redirect
    wrPc,       \* where the function stands
    wrOpen,     \* the connection of its CDPClient is open
    wrElapsed,  \* time.time() - start_time, in seconds
    wrLast,     \* what the last poll brought
    wrRetried,  \* some poll so far got no answer
    wrRet,      \* what the function gave its caller, or what it raised
    \* ---- augment_register.main, steps 5 to 12
    mnPc,          \* the step main is at
    mnEmail,       \* the variable email
    mnLink,        \* the variable payment_link
    mnSession,     \* the variable session
    mnLinkFile,    \* the file payment_link_*.txt
    mnSessionFile, \* the file session_*.txt
    mnLinkOk,      \* the variable payment_link_success
    mnSessionOk,   \* the variable session_success
    mnEntered,     \* input() has returned
    mnClose,       \* which close_window call of step 12 was made
    \* ---- click_cloudflare_verify, find_cloudflare_element
    cfFn,       \* the function called: "click" or "find"
    cfPc,       \* where the function stands
    cfOpen,     \* the connection of the CDPClient it is given is open
    cfTried,    \* the selectors queried so far, in the order of the queries
    cfLast,     \* what the last DOM.querySelectorAll brought
    cfNode,     \* the variable node_id of click_cloudflare_verify
    cfMatched,  \* the variable matched_selector
    cfMouse,    \* Input.dispatchMouseEvent requests transmitted
    cfRet,      \* what the function gave its caller, or what it raised
    \* ---- EmailUtils.save_suffix in two script runs
    csPc,         \* where the call of each run stands
    csList,       \* the list data["suffixes"] of each run
    csRet,        \* what the call of each run returned
    csOverlap,    \* a run read the file while the other was saving
    csLastWriter  \* the run whose json.dump ended last

cdpVars == <<cdpId, calls, pc, wsOpen, inbox, now, recvStart, result, via,
             sent, nextSer, discarded, returned>>
sfVars  == <<sfFile, sfEmail, sfRet, sfLog, sfWrote>>
apiVars == <<apiOp, apiIn, apiEnv, apiRet, mainPc, mainWs>>
gnVars  == <<gnOp, gnLen, gnNums, gnDots, gnCount, gnI, gnEmails, gnRet>>
vcVars  == <<vcPc, vcAttempt, vcRequests, vcLast, vcRet>>
wrVars  == <<wrPc, wrOpen, wrElapsed, wrLast, wrRetried, wrRet>>
mnVars  == <<mnPc, mnEmail, mnLink, mnSession, mnLinkFile, mnSessionFile,
             mnLinkOk, mnSessionOk, mnEntered, mnClose>>
cfVars  == <<cfFn, cfPc, cfOpen, cfTried, cfLast, cfNode, cfMatched, cfMouse,
             cfRet>>
csVars  == <<csPc, csList, csRet, csOverlap, csLastWriter>>
extVars == <<gnVars, vcVars, wrVars, mnVars, cfVars, csVars>>
vars    == <<cdpVars, sfVars, apiVars, extVars>>

\* What the actions of one part leave alone
gnOthers == <<cdpVars, sfVars, apiVars, vcVars, wrVars, mnVars, cfVars,
             csVars>>
vcOthers == <<cdpVars, sfVars, apiVars, gnVars, wrVars, mnVars, cfVars,
             csVars>>
wrOthers == <<cdpVars, sfVars, apiVars, gnVars, vcVars, mnVars, cfVars,
             csVars>>
mnOthers == <<cdpVars, sfVars, apiVars, gnVars, vcVars, wrVars, cfVars,
             csVars>>
csOthers == <<cdpVars, apiVars, gnVars, vcVars, wrVars, mnVars, cfVars>>
cfOthers == <<cdpVars, sfVars, apiVars, gnVars, vcVars, wrVars, mnVars,
             csVars>>

(***************************************************************************)
(* Bounds of the model.                                                    *)
(***************************************************************************)
MaxCalls == 3       \* send() calls on the connection
MaxMsgs  == 3       \* serial-numbered messages the peer sends
MaxInbox == 2       \* messages in flight at once
TickStep == 5       \* seconds by which the model's clock advances
MaxLen   == 4       \* characters of an address given to save_suffix
MaxPorts == 2       \* entries of the /browser/ports answer

(***************************************************************************)
(* Python values shared by the parts.                                      *)
(***************************************************************************)
PyNone == [t |-> "None"]

Min(a, b) == IF a < b THEN a ELSE b

(***************************************************************************)
(*                              CDPClient                                  *)
(***************************************************************************)
Deadline    == 10   \* deadline = time.time() + 10.0
RecvTimeout == 10   \* timeout: float = 10.0, self.ws.settimeout(timeout)

NoId == 0           \* the message has no "id" key

\* What the peer can put on the wire: a JSON object with or without an id, a
\* JSON text that is no object (a list, a number), bytes that are no JSON.
MsgShapes ==
    [kind : {"obj"}, id : 0..MaxCalls]
      \cup [kind : {"nonobj", "garbage"}, id : {NoId}]

Msg(ser, shape) == [ser |-> ser, kind |-> shape.kind, id |-> shape.id]

NoMsg == [ser |-> 0, kind |-> "none", id |-> NoId]

Pending  == [kind |-> "pending", msg |-> NoMsg]
RetNone  == [kind |-> "None", msg |-> NoMsg]
Raised   == [kind |-> "raised", msg |-> NoMsg]
RetMsg(m) == [kind |-> "resp", msg |-> m]

\* The history of a message that carries a serial number.
Noted(set, m, call) ==
    IF m.ser = 0 THEN set
    ELSE set \cup {[ser |-> m.ser, id |-> m.id, call |-> call]}

\* Faulty variant: the counter is not advanced.
NextIdStuck(id) == id
\* self._id += 1
NextId(id) == id + 1

\* Faulty variant: any message that carries an id is taken for the answer.
MatchesAnyResponse(m, id) == m.id # NoId
\* resp.get("id") == self._id
Matches(m, id) == m.id = id

\* Faulty variant: the loop does not look at the clock.
BeforeDeadlineAlways(t) == TRUE
\* while time.time() < deadline
BeforeDeadline(t) == t < Deadline

CDPInit ==
    /\ cdpId = 0
    /\ calls = 0
    /\ pc = "idle"
    /\ wsOpen = TRUE
    /\ inbox = <<>>
    /\ now = 0
    /\ recvStart = 0
    /\ result = Pending
    /\ via = "init"
    /\ sent = {}
    /\ nextSer = 1
    /\ discarded = {}
    /\ returned = {}

\* send(): the id is taken, the request is built and handed to ws.send, which
\* is outside the try block: on a closed connection it raises to the caller.
\* Otherwise the deadline is computed and the loop is entered.
Call ==
    /\ pc = "idle"
    /\ calls < MaxCalls
    /\ calls' = calls + 1
    /\ cdpId' = NextId(cdpId)
    /\ now' = 0
    /\ recvStart' = 0
    /\ IF wsOpen
         THEN /\ sent' = sent \cup {<<calls', cdpId'>>}
              /\ pc' = "loop"
              /\ result' = Pending
              /\ via' = "sent"
         ELSE /\ sent' = sent
              /\ pc' = "idle"
              /\ result' = Raised
              /\ via' = "ws.send"
    /\ UNCHANGED <<wsOpen, inbox, nextSer, discarded, returned, sfVars, apiVars, extVars>>

\* The while test; when it fails the call falls through to "return None".
LoopCheck ==
    /\ pc = "loop"
    /\ IF BeforeDeadline(now)
         THEN /\ pc' = "recv"
              /\ recvStart' = now
              /\ UNCHANGED <<result, via>>
         ELSE /\ pc' = "idle"
              /\ result' = RetNone
              /\ via' = "deadline"
              /\ UNCHANGED recvStart
    /\ UNCHANGED <<cdpId, calls, wsOpen, inbox, now, sent, nextSer,
                   discarded, returned, sfVars, apiVars, extVars>>

\* recv() delivers the oldest message; json.loads and resp.get raise on what
\* is no JSON object, and the except clause returns None.
RecvMsg ==
    /\ pc = "recv"
    /\ inbox # <<>>
    /\ LET m == Head(inbox) IN
         /\ inbox' = Tail(inbox)
         /\ IF m.kind = "garbage"
              THEN /\ pc' = "idle" /\ result' = RetNone /\ via' = "json.loads"
                   /\ UNCHANGED <<discarded, returned>>
              ELSE IF m.kind = "nonobj"
              THEN /\ pc' = "idle" /\ result' = RetNone /\ via' = "resp.get"
                   /\ UNCHANGED <<discarded, returned>>
              ELSE IF Matches(m, cdpId)
              THEN /\ pc' = "idle" /\ result' = RetMsg(m) /\ via' = "match"
                   /\ returned' = Noted(returned, m, calls)
                   /\ UNCHANGED discarded
              ELSE /\ pc' = "loop"
                   /\ discarded' = Noted(discarded, m, calls)
                   /\ UNCHANGED <<result, via, returned>>
    /\ UNCHANGED <<cdpId, calls, wsOpen, now, recvStart, sent, nextSer,
                   sfVars, apiVars, extVars>>

\* recv() raises WebSocketTimeoutException after the socket timeout.
RecvTimedOut ==
    /\ pc = "recv"
    /\ now - recvStart >= RecvTimeout
    /\ pc' = "idle"
    /\ result' = RetNone
    /\ via' = "timeout"
    /\ UNCHANGED <<cdpId, calls, wsOpen, inbox, now, recvStart, sent, nextSer,
                   discarded, returned, sfVars, apiVars, extVars>>

\* recv() raises because the connection is gone.
RecvError ==
    /\ pc = "recv"
    /\ ~wsOpen
    /\ pc' = "idle"
    /\ result' = RetNone
    /\ via' = "recv error"
    /\ UNCHANGED <<cdpId, calls, wsOpen, inbox, now, recvStart, sent, nextSer,
                   discarded, returned, sfVars, apiVars, extVars>>

\* Time passes while a call is in progress: in recv() up to the socket
\* timeout, at the while test up to the deadline (later instants change
\* nothing the test reads).
Tick ==
    /\ \/ pc = "recv" /\ now - recvStart < RecvTimeout
       \/ pc = "loop" /\ now < Deadline
    /\ now' = IF pc = "recv"
                THEN Min(now + TickStep, recvStart + RecvTimeout)
                ELSE Min(now + TickStep, Deadline)
    /\ UNCHANGED <<cdpId, calls, pc, wsOpen, inbox, recvStart, result, via,
                   sent, nextSer, discarded, returned, sfVars, apiVars, extVars>>

\* The peer sends one more message, with a serial number of its own.
PeerSend ==
    /\ wsOpen
    /\ Len(inbox) < MaxInbox
    /\ nextSer <= MaxMsgs
    /\ \E s \in MsgShapes : inbox' = Append(inbox, Msg(nextSer, s))
    /\ nextSer' = nextSer + 1
    /\ UNCHANGED <<cdpId, calls, pc, wsOpen, now, recvStart, result, via,
                   sent, discarded, returned, sfVars, apiVars, extVars>>

\* The peer sends without end (events, answers); the messages are not told
\* apart, so the state space stays finite.
PeerSendForever ==
    /\ wsOpen
    /\ Len(inbox) < MaxInbox
    /\ \E s \in MsgShapes : inbox' = Append(inbox, Msg(0, s))
    /\ UNCHANGED <<cdpId, calls, pc, wsOpen, now, recvStart, result, via,
                   sent, nextSer, discarded, returned, sfVars, apiVars, extVars>>

\* The connection breaks.
PeerClose ==
    /\ wsOpen
    /\ wsOpen' = FALSE
    /\ UNCHANGED <<cdpId, calls, pc, inbox, now, recvStart, result, via,
                   sent, nextSer, discarded, returned, sfVars, apiVars, extVars>>

(***************************************************************************)
(*                        EmailUtils.save_suffix                           *)
(***************************************************************************)
PyStr(chars) == [t |-> "str", s |-> chars]
PyTrue  == [t |-> "bool", b |-> TRUE]
PyFalse == [t |-> "bool", b |-> FALSE]

\* Strings are sequences of characters: a letter and the separator.
Alphabet == {"a", "@"}

RECURSIVE StringsUpTo(_)
StringsUpTo(n) ==
    IF n = 0 THEN {<<>>}
    ELSE LET shorter == StringsUpTo(n - 1) IN
         shorter \cup {Append(w, c) : w \in {v \in shorter : Len(v) = n - 1},
                                      c \in Alphabet}

\* The arguments save_suffix is called with: None or a string.
Emails == {PyNone} \cup {PyStr(w) : w \in StringsUpTo(MaxLen)}

\* '@' in email
HasAt(w) == \E i \in 1..Len(w) : w[i] = "@"

\* email.split('@')
RECURSIVE Split(_)
Split(w) ==
    IF ~HasAt(w) THEN <<w>>
    ELSE LET i == CHOOSE k \in 1..Len(w) :
                    w[k] = "@" /\ \A j \in 1..(k - 1) : w[j] # "@"
         IN <<SubSeq(w, 1, i - 1)>> \o Split(SubSeq(w, i + 1, Len(w)))

\* Faulty variant: more than one '@' is accepted.
ExtractSuffixFirstAt(email) ==
    IF email = PyNone \/ email.s = <<>> \/ ~HasAt(email.s) THEN PyNone
    ELSE LET parts == Split(email.s) IN
         IF Len(parts) < 2 \/ parts[2] = <<>> THEN PyNone
         ELSE PyStr(<<"@">> \o parts[2])
\* EmailUtils._extract_suffix
_extract_suffix(email) ==
    IF email = PyNone \/ email.s = <<>> \/ ~HasAt(email.s) THEN PyNone
    ELSE LET parts == Split(email.s) IN
         IF Len(parts) # 2 \/ parts[2] = <<>> THEN PyNone
         ELSE PyStr(<<"@">> \o parts[2])

\* The file: absent, holding no JSON text (zero bytes, or the head of a
\* document whose writing failed), or holding {"suffixes": [...]}.
FileAbsent == [t |-> "absent"]
FileBroken == [t |-> "broken"]
FileJson(list) == [t |-> "json", suffixes |-> list]

\* Faulty variant: the stored list is never read.
LoadDataEmpty(file) == <<>>
\* EmailUtils._load_data, of a file that can be read: the list under
\* "suffixes"; an absent file and a JSONDecodeError give the empty list.
_load_data(file) == IF file.t = "json" THEN file.suffixes ELSE <<>>

\* Faulty variant: the membership test always fails.
InListNever(x, list) == FALSE
\* suffix in data["suffixes"]
InList(x, list) == \E i \in 1..Len(list) : list[i] = x

\* EmailUtils._save_data: the outcomes of open(filename, 'w') and json.dump.
\* A success leaves the new document; a failure of open leaves the file as
\* it was, a failure of json.dump leaves a truncated text.
SaveOutcomes(file, list) ==
    {[ok |-> TRUE, file |-> FileJson(list), wrote |-> TRUE],
     [ok |-> FALSE, file |-> file, wrote |-> FALSE],
     [ok |-> FALSE, file |-> FileBroken, wrote |-> TRUE]}

SfInit ==
    /\ sfFile \in {FileAbsent, FileBroken}
    /\ sfEmail = PyNone
    /\ sfRet = PyNone
    /\ sfLog = "init"
    /\ sfWrote = FALSE

\* EmailUtils.save_suffix(email)
SaveSuffix(email) ==
    LET suffix == _extract_suffix(email) IN
    /\ sfEmail' = email
    /\ IF suffix = PyNone
         THEN /\ sfRet' = PyFalse
              /\ sfLog' = "invalid"
              /\ sfWrote' = FALSE
              /\ UNCHANGED sfFile
         ELSE LET list == _load_data(sfFile) IN
              IF InList(suffix.s, list)
                THEN /\ sfRet' = PyTrue
                     /\ sfLog' = "exists"
                     /\ sfWrote' = FALSE
                     /\ UNCHANGED sfFile
                ELSE \E o \in SaveOutcomes(sfFile, Append(list, suffix.s)) :
                       /\ sfFile' = o.file
                       /\ sfWrote' = o.wrote
                       /\ sfRet' = IF o.ok THEN PyTrue ELSE PyFalse
                       /\ sfLog' = IF o.ok THEN "saved" ELSE "save failed"

SaveSuffixCall ==
    /\ \E email \in Emails : SaveSuffix(email)
    /\ UNCHANGED <<cdpVars, apiVars, extVars>>

(***************************************************************************)
(*                            BitBrowserAPI                                *)
(* Python values are records tagged with their type; a dict keeps its      *)
(* items in insertion order, as <<key, value>> pairs.                      *)
(***************************************************************************)
PyInt(n) == [t |-> "int", n |-> n]
PyList(items) == [t |-> "list", items |-> items]
PyDict(items) == [t |-> "dict", items |-> items]
EmptyDict == PyDict(<<>>)

\* An exception on its way to the next handler.
Exc(cls) == [t |-> "exc", cls |-> cls]
IsExc(v) == v.t = "exc"

\* issubclass(cls, base) for the classes the code can meet.
IsSubclass(cls, base) ==
    \/ cls = base
    \/ base = "Exception"
    \/ base = "OSError" /\ cls \in {"URLError", "HTTPError"}
    \/ base = "URLError" /\ cls = "HTTPError"
    \/ base = "ValueError" /\ cls = "JSONDecodeError"

\* try: ... except <clauses>: return onExc
TryExcept(v, clauses, onExc) ==
    IF IsExc(v) /\ \E i \in 1..Len(clauses) : IsSubclass(v.cls, clauses[i])
      THEN onExc ELSE v

\* bool(v)
Truthy(v) ==
    CASE v.t = "None" -> FALSE
      [] v.t = "bool" -> v.b
      [] v.t = "int"  -> v.n # 0
      [] v.t = "str"  -> v.s # <<>>
      [] v.t = "list" -> v.items # <<>>
      [] v.t = "dict" -> v.items # <<>>

\* a == b: a bool equals the int of its value
PyEq(a, b) ==
    LET num(v) == IF v.t = "bool" THEN PyInt(IF v.b THEN 1 ELSE 0) ELSE v
    IN num(a) = num(b)

HasKey(v, key) == \E i \in 1..Len(v.items) : v.items[i][1] = key

\* v.get(key, default): only a dict has get
DictGet(v, key, default) ==
    IF v.t # "dict" THEN Exc("AttributeError")
    ELSE IF HasKey(v, key)
      THEN v.items[CHOOSE i \in 1..Len(v.items) : v.items[i][1] = key][2]
      ELSE default

\* s.startswith(prefix)
StartsWith(w, prefix) ==
    Len(w) >= Len(prefix) /\ SubSeq(w, 1, Len(prefix)) = prefix

WsPrefix == <<"w", "s", ":", "/", "/">>

\* Strings the answers carry.
WsA    == PyStr(<<"w", "s", ":", "/", "/", "a">>)
WsB    == PyStr(<<"w", "s", ":", "/", "/", "b">>)
WssUrl == PyStr(<<"w", "s", "s", ":", "/", "/", "a">>)
HttpUrl == PyStr(<<"h", "t", "t", "p", ":", "/", "/", "a">>)
IdW1   == PyStr(<<"w", "1">>)
EmptyStr == PyStr(<<>>)

\* What urlopen(...), response.read().decode() and json.loads give: an
\* exception or the decoded JSON value.
Failures == {[k |-> "exc", cls |-> c] :
               c \in {"HTTPError", "URLError", "OSError", "JSONDecodeError"}}
Answer(body) == [k |-> "json", body |-> body]
Exchange(o) == IF o.k = "json" THEN o.body ELSE Exc(o.cls)

\* The values of "success" and of "data" in an answer of the local API.
SuccessVals == {PyTrue, PyFalse, PyInt(1), PyInt(0), PyNone, PyStr(<<"o", "k">>)}
WindowData ==
    {PyNone, EmptyStr, IdW1, PyList(<<>>), EmptyDict,
     PyDict(<< <<"id", IdW1>> >>),
     PyDict(<< <<"id", PyNone>> >>),
     PyDict(<< <<"ws", WsA>>, <<"http", HttpUrl>> >>),
     PyDict(<< <<"http", HttpUrl>> >>),
     PyDict(<< <<"ws", PyNone>> >>),
     PyDict(<< <<"id", IdW1>>, <<"ws", WsB>> >>)}

\* JSON objects with or without "success", with or without "data".
AnswerDicts(dataVals) ==
    {EmptyDict}
      \cup {PyDict(<< <<"success", sv>> >>) : sv \in SuccessVals}
      \cup {PyDict(<< <<"data", dv>> >>) : dv \in dataVals}
      \cup {PyDict(<< <<"success", sv>>, <<"data", dv>> >>) :
              sv \in SuccessVals, dv \in dataVals}

NonDicts == {PyNone, PyList(<<>>), PyInt(1), IdW1}

WindowOutcomes ==
    Failures \cup {Answer(b) : b \in NonDicts \cup AnswerDicts(WindowData)}

\* Faulty variant: create_window without its "except Exception" clause.
create_window_NoCatchAll(o) ==
    LET answer == Exchange(o)
        succ == DictGet(answer, "success", PyNone)
        body == IF IsExc(answer) THEN answer
                ELSE IF IsExc(succ) THEN succ
                ELSE IF Truthy(succ)
                  THEN DictGet(DictGet(answer, "data", EmptyDict), "id", PyNone)
                  ELSE PyNone
    IN TryExcept(body, <<"HTTPError", "URLError">>, PyNone)
\* BitBrowserAPI.create_window
create_window(o) ==
    LET answer == Exchange(o)
        succ == DictGet(answer, "success", PyNone)
        data == DictGet(answer, "data", EmptyDict)
        body == IF IsExc(answer) THEN answer
                ELSE IF IsExc(succ) THEN succ
                ELSE IF Truthy(succ)
                  THEN (IF IsExc(data) THEN data
                        ELSE DictGet(data, "id", PyNone))
                  ELSE PyNone
    IN TryExcept(body, <<"HTTPError", "URLError", "Exception">>, PyNone)

\* BitBrowserAPI.open_window
open_window(o) ==
    LET answer == Exchange(o)
        succ == DictGet(answer, "success", PyNone)
        body == IF IsExc(answer) THEN answer
                ELSE IF IsExc(succ) THEN succ
                ELSE IF Truthy(succ)
                  THEN DictGet(answer, "data", EmptyDict)
                  ELSE PyNone
    IN TryExcept(body, <<"HTTPError", "URLError", "Exception">>, PyNone)

\* Faulty variant: the presence of "success" is tested, not its value.
close_window_KeyPresent(o) ==
    LET answer == Exchange(o)
        body == IF IsExc(answer) THEN answer
                ELSE IF answer.t # "dict" THEN Exc("AttributeError")
                ELSE IF HasKey(answer, "success") THEN PyTrue ELSE PyFalse
    IN TryExcept(body, <<"HTTPError", "URLError", "Exception">>, PyFalse)
\* BitBrowserAPI.close_window
close_window(o) ==
    LET answer == Exchange(o)
        succ == DictGet(answer, "success", PyNone)
        body == IF IsExc(answer) THEN answer
                ELSE IF IsExc(succ) THEN succ
                ELSE IF Truthy(succ) THEN PyTrue ELSE PyFalse
    IN TryExcept(body, <<"HTTPError", "URLError", "Exception">>, PyFalse)

\* str(port): the decimal digits of an int, the text of None, a string as
\* it is. The ports of the model are single digits.
DigitChars == <<"0", "1", "2", "3", "4", "5", "6", "7", "8", "9">>
PyStrOf(v) ==
    CASE v.t = "str"  -> v.s
      [] v.t = "int"  -> <<DigitChars[v.n + 1]>>
      [] v.t = "None" -> <<"N", "o", "n", "e">>
      [] v.t = "bool" -> IF v.b THEN <<"T", "r", "u", "e">>
                                ELSE <<"F", "a", "l", "s", "e">>

\* s.strip()
RECURSIVE Strip(_)
Strip(w) ==
    IF w = <<>> THEN w
    ELSE IF Head(w) = " " THEN Strip(Tail(w))
    ELSE IF w[Len(w)] = " " THEN Strip(SubSeq(w, 1, Len(w) - 1))
    ELSE w

IsDigit(c) == \E d \in 1..10 : DigitChars[d] = c
DigitVal(c) == (CHOOSE d \in 1..10 : DigitChars[d] = c) - 1

\* int(s) of a stripped text: its value when it is a run of digits, else
\* ValueError
RECURSIVE DigitsValue(_)
DigitsValue(w) ==
    IF w = <<>> THEN 0
    ELSE 10 * DigitsValue(SubSeq(w, 1, Len(w) - 1)) + DigitVal(w[Len(w)])
PyIntOf(w) ==
    IF w # <<>> /\ \A i \in 1..Len(w) : IsDigit(w[i])
      THEN PyInt(DigitsValue(w))
      ELSE Exc("ValueError")

\* int(str(port).strip())
PortNum(port) == PyIntOf(Strip(PyStrOf(port)))

\* What http://127.0.0.1:<port>/json/version gives on each port where a
\* browser may listen; nothing listens elsewhere.
Ports == {1, 2}
VersionOutcomes ==
    {[k |-> "exc", cls |-> "URLError"],
     [k |-> "exc", cls |-> "JSONDecodeError"],
     Answer(PyList(<<>>)),
     Answer(EmptyDict),
     Answer(PyDict(<< <<"webSocketDebuggerUrl", PyNone>> >>)),
     Answer(PyDict(<< <<"webSocketDebuggerUrl", WssUrl>> >>)),
     Answer(PyDict(<< <<"webSocketDebuggerUrl", WsA>> >>)),
     Answer(PyDict(<< <<"webSocketDebuggerUrl", WsB>> >>))}
Envs == [Ports -> VersionOutcomes]

VersionExchange(env, port) ==
    IF port \in DOMAIN env THEN Exchange(env[port]) ELSE Exc("URLError")

\* BitBrowserAPI.get_websocket_by_port, fetch_ws_via_port
get_websocket_by_port(env, port) ==
    LET data == VersionExchange(env, port)
        ws == DictGet(data, "webSocketDebuggerUrl", PyNone)
    IN IF IsExc(data) \/ IsExc(ws) THEN PyNone
       ELSE IF ws.t = "str" /\ StartsWith(ws.s, WsPrefix) THEN ws
       ELSE PyNone

\* Faulty variant: the loop gives up at the first entry that fails.
RECURSIVE ScanPortsStopAtFailure(_, _, _)
ScanPortsStopAtFailure(items, i, env) ==
    IF i > Len(items) THEN PyNone
    ELSE LET port_num == PortNum(items[i][2])
             ws_url == get_websocket_by_port(env, port_num.n)
         IN IF IsExc(port_num) THEN PyNone
            ELSE IF Truthy(ws_url) THEN ws_url
            ELSE PyNone
\* The for loop of find_websocket over ports_data.items(), from entry i on:
\* the first truthy ws_url is returned, an entry that raises is skipped, and
\* the loop falls through to "return None".
RECURSIVE ScanPorts(_, _, _)
ScanPorts(items, i, env) ==
    IF i > Len(items) THEN PyNone
    ELSE LET port_num == PortNum(items[i][2])
             ws_url == get_websocket_by_port(env, port_num.n)
         IN IF IsExc(port_num) THEN ScanPorts(items, i + 1, env)
            ELSE IF Truthy(ws_url) THEN ws_url
            ELSE ScanPorts(items, i + 1, env)

\* The values a window's port takes in the /browser/ports answer.
PortVals ==
    {PyInt(1), PyInt(2), PyStr(<<"1">>), PyStr(<<" ", "2", " ">>),
     PyStr(<<"x">>), PyNone}
BrowserIds == <<"b1", "b2", "b3", "b4">>

\* The dicts of "data": up to MaxPorts windows, in the order of the answer.
RECURSIVE PortItems(_)
PortItems(n) ==
    IF n = 0 THEN {<<>>}
    ELSE {Append(items, <<BrowserIds[n], pv>>) :
            items \in PortItems(n - 1), pv \in PortVals}
PortsData ==
    {PyNone, PyList(<<>>), IdW1}
      \cup {PyDict(items) : items \in UNION {PortItems(n) : n \in 0..MaxPorts}}

PortsOutcomes ==
    Failures
      \cup {Answer(b) : b \in NonDicts \cup {EmptyDict}}
      \cup {Answer(PyDict(<< <<"success", sv>> >>)) : sv \in SuccessVals}
      \cup {Answer(PyDict(<< <<"success", sv>>, <<"data", PyDict(items)>> >>)) :
              sv \in {PyFalse, PyInt(1), PyStr(<<"o", "k">>)},
              items \in PortItems(1)}
      \cup {Answer(PyDict(<< <<"success", PyTrue>>, <<"data", dv>> >>)) :
              dv \in PortsData}

\* BitBrowserAPI.find_websocket, find_bitbrowser_ws
find_websocket(o, env) ==
    LET answer == Exchange(o)
        succ == DictGet(answer, "success", PyNone)
        data == DictGet(answer, "data", PyNone)
        ports_data == IF Truthy(data) THEN data ELSE EmptyDict
        body == IF IsExc(answer) THEN answer
                ELSE IF IsExc(succ) THEN succ
                ELSE IF ~PyEq(succ, PyTrue) THEN PyNone
                ELSE IF ports_data.t # "dict" \/ ports_data.items = <<>>
                  THEN PyNone
                ELSE ScanPorts(ports_data.items, 1, env)
    IN TryExcept(body, <<"URLError", "Exception">>, PyNone)

ApiInit ==
    /\ apiOp = "none"
    /\ apiIn = PyNone
    /\ apiEnv = PyNone
    /\ apiRet = PyNone
    /\ mainPc = "start"
    /\ mainWs = PyNone

\* The inputs of one call: what the HTTP exchange of the call will give
\* and, for find_websocket, what listens on the ports.
ApiInputs ==
    /\ apiOp = "none"
    /\ apiRet = PyNone
    /\ mainPc = "start"
    /\ mainWs = PyNone
    /\ \/ apiIn \in WindowOutcomes /\ apiEnv = PyNone
       \/ apiIn \in PortsOutcomes /\ apiEnv \in Envs

CreateWindow ==
    /\ apiOp = "none"
    /\ apiEnv = PyNone
    /\ apiOp' = "create_window"
    /\ apiRet' = create_window(apiIn)
    /\ UNCHANGED <<apiIn, apiEnv, mainPc, mainWs, cdpVars, sfVars, extVars>>

OpenWindow ==
    /\ apiOp = "none"
    /\ apiEnv = PyNone
    /\ apiOp' = "open_window"
    /\ apiRet' = open_window(apiIn)
    /\ UNCHANGED <<apiIn, apiEnv, mainPc, mainWs, cdpVars, sfVars, extVars>>

CloseWindow ==
    /\ apiOp = "none"
    /\ apiEnv = PyNone
    /\ apiOp' = "close_window"
    /\ apiRet' = close_window(apiIn)
    /\ UNCHANGED <<apiIn, apiEnv, mainPc, mainWs, cdpVars, sfVars, extVars>>

FindWebsocket ==
    /\ apiOp = "none"
    /\ apiEnv # PyNone
    /\ apiOp' = "find_websocket"
    /\ apiRet' = find_websocket(apiIn, apiEnv)
    /\ UNCHANGED <<apiIn, apiEnv, mainPc, mainWs, cdpVars, sfVars, extVars>>

\* augment_register.main, steps 2 to 4: open the window, leave when the
\* result is falsy, else take result.get("ws") and connect a CDPClient to it.
\* Nothing catches what result.get or the connection raise.
MainOpenWindow ==
    /\ apiOp = "none"
    /\ apiEnv = PyNone
    /\ LET res == open_window(apiIn)
           ws == DictGet(res, "ws", PyNone)
       IN /\ apiOp' = "main"
          /\ apiRet' = res
          /\ IF ~Truthy(res)
               THEN mainPc' = "exit" /\ mainWs' = PyNone
               ELSE IF IsExc(ws)
               THEN mainPc' = "raised" /\ mainWs' = PyNone
               ELSE mainPc' = "connect" /\ mainWs' = ws
    /\ UNCHANGED <<apiIn, apiEnv, cdpVars, sfVars, extVars>>

(***************************************************************************)
(*            EmailUtils.generate_random_email(s), _generate_username      *)
(* random.choice and random.randint are choices the model makes: an        *)
(* operator gives the set of values a call can return.                     *)
(***************************************************************************)
MaxUserLen  == 5    \* largest username_length of one generate_random_email
MaxBatchLen == 2    \* largest username_length of a generate_random_emails
MaxCount    == 2    \* largest count of a generate_random_emails

\* string.ascii_lowercase and string.digits, one character of each
Letters == {"a"}
Digits  == {"1"}

\* Suffixes as save_suffix stores them
SfxA == <<"@", "a">>
SfxB == <<"@", "a", "a">>

\* A file holding a JSON object without the key 'suffixes'
FileOther == [t |-> "other"]

\* The files generate_random_email can meet
GenFiles == {FileAbsent, FileBroken, FileOther, FileJson(<<>>),
             FileJson(<<SfxA>>), FileJson(<<SfxA, SfxB>>)}

\* EmailUtils.get_all_suffixes
get_all_suffixes(file) == _load_data(file)

\* ''.join(random.choice(chars) for _ in range(length))
RECURSIVE StringsOfLen(_, _)
StringsOfLen(chars, n) ==
    IF n <= 0 THEN {<<>>}
    ELSE {Append(w, c) : w \in StringsOfLen(chars, n - 1), c \in chars}

\* The list valid_positions of _generate_username.  Python counts from 0:
\* its username_list[i-1] is list[i] here and its username_list[i+1] is
\* list[i + 2].
valid_positions(list) ==
    {i \in 1..(Len(list) - 2) : list[i] # "." /\ list[i + 2] # "."}

\* username_list.insert(pos, c): c goes before the element of index pos
Insert(list, pos, c) ==
    SubSeq(list, 1, pos) \o <<c>> \o SubSeq(list, pos + 1, Len(list))

\* One iteration of the loop "for _ in range(num_dots)"
InsertDot(list) ==
    LET valid == valid_positions(list) IN
    IF valid = {} THEN {list}
    ELSE {Insert(list, pos, ".") : pos \in valid}

RECURSIVE InsertDots(_, _)
InsertDots(lists, num_dots) ==
    IF num_dots = 0 THEN lists
    ELSE InsertDots(UNION {InsertDot(l) : l \in lists}, num_dots - 1)

\* Faulty variant: up to three dots are inserted.
GenerateUsernameThreeDots(length, use_numbers, use_dots) ==
    LET chars == IF use_numbers THEN Letters \cup Digits ELSE Letters
        base  == StringsOfLen(chars, length)
    IN IF use_dots /\ length > 3
         THEN UNION {InsertDots(base, num_dots) : num_dots \in 1..3}
         ELSE base
\* EmailUtils._generate_username: the user names a call can return
_generate_username(length, use_numbers, use_dots) ==
    LET chars == IF use_numbers THEN Letters \cup Digits ELSE Letters
        base  == StringsOfLen(chars, length)
    IN IF use_dots /\ length > 3
         THEN UNION {InsertDots(base, num_dots) : num_dots \in 1..2}
         ELSE base

\* Faulty variant: without a stored suffix the bare user name is returned.
GenerateRandomEmailNoCheck(file, username_length, use_numbers, use_dots) ==
    LET suffixes == get_all_suffixes(file)
        names == _generate_username(username_length, use_numbers, use_dots)
    IN IF suffixes = <<>> THEN {PyStr(u) : u \in names}
       ELSE {PyStr(u \o suffixes[k]) : u \in names, k \in 1..Len(suffixes)}
\* EmailUtils.generate_random_email: the values a call can return
generate_random_email(file, username_length, use_numbers, use_dots) ==
    LET suffixes == get_all_suffixes(file)
        names == _generate_username(username_length, use_numbers, use_dots)
    IN IF suffixes = <<>> THEN {PyNone}
       ELSE {PyStr(u \o suffixes[k]) : u \in names, k \in 1..Len(suffixes)}

\* Faulty variant: every value is appended.
AppendAlways(emails, email) == Append(emails, email)
\* "if email: emails.append(email)" of generate_random_emails
AppendIfTruthy(emails, email) ==
    IF Truthy(email) THEN Append(emails, email) ELSE emails

GnInit ==
    /\ gnOp = "none"
    /\ gnLen = 0
    /\ gnNums = FALSE
    /\ gnDots = FALSE
    /\ gnCount = 0
    /\ gnI = 0
    /\ gnEmails = <<>>
    /\ gnRet = PyNone

\* The arguments of one call and the file it finds
GnInputs ==
    /\ gnOp = "none"
    /\ gnLen \in 0..MaxUserLen
    /\ gnNums \in BOOLEAN
    /\ gnDots \in BOOLEAN
    /\ gnCount \in 0..MaxCount
    /\ gnI = 0
    /\ gnEmails = <<>>
    /\ gnRet = PyNone
    /\ sfFile \in GenFiles

\* One call of generate_random_email
GenerateRandomEmail ==
    /\ gnOp = "none"
    /\ gnOp' = "email"
    /\ gnRet' \in generate_random_email(sfFile, gnLen, gnNums, gnDots)
    /\ UNCHANGED <<gnLen, gnNums, gnDots, gnCount, gnI, gnEmails, gnOthers>>

\* generate_random_emails: "emails = []"
BatchStart ==
    /\ gnOp = "none"
    /\ gnLen <= MaxBatchLen
    /\ gnOp' = "batch"
    /\ gnI' = 0
    /\ gnEmails' = <<>>
    /\ UNCHANGED <<gnLen, gnNums, gnDots, gnCount, gnRet, gnOthers>>

\* generate_random_emails: one iteration of "for _ in range(count)"
BatchStep ==
    /\ gnOp = "batch"
    /\ gnI < gnCount
    /\ \E email \in generate_random_email(sfFile, gnLen, gnNums, gnDots) :
         gnEmails' = AppendIfTruthy(gnEmails, email)
    /\ gnI' = gnI + 1
    /\ UNCHANGED <<gnOp, gnLen, gnNums, gnDots, gnCount, gnRet, gnOthers>>

\* generate_random_emails: "return emails"
BatchReturn ==
    /\ gnOp = "batch"
    /\ gnI = gnCount
    /\ gnOp' = "batch done"
    /\ gnRet' = PyList(gnEmails)
    /\ UNCHANGED <<gnLen, gnNums, gnDots, gnCount, gnI, gnEmails, gnOthers>>

(***************************************************************************)
(*          augment_register.get_verification_code_from_email              *)
(* One action is one attempt of the retry loop: the request, the scan of   *)
(* the mails it brings and the except clauses.                             *)
(***************************************************************************)
max_retries == 10

\* The digits the patterns capture: (\d{6})
CodeLen == 6

\* str.lower() and re.IGNORECASE on the letters A to Z
UpperToLower ==
    ("A" :> "a") @@ ("B" :> "b") @@ ("C" :> "c") @@ ("D" :> "d") @@
    ("E" :> "e") @@ ("F" :> "f") @@ ("G" :> "g") @@ ("H" :> "h") @@
    ("I" :> "i") @@ ("J" :> "j") @@ ("K" :> "k") @@ ("L" :> "l") @@
    ("M" :> "m") @@ ("N" :> "n") @@ ("O" :> "o") @@ ("P" :> "p") @@
    ("Q" :> "q") @@ ("R" :> "r") @@ ("S" :> "s") @@ ("T" :> "t") @@
    ("U" :> "u") @@ ("V" :> "v") @@ ("W" :> "w") @@ ("X" :> "x") @@
    ("Y" :> "y") @@ ("Z" :> "z")
Lower(c) == IF c \in DOMAIN UpperToLower THEN UpperToLower[c] ELSE c
LowerStr(w) == [i \in 1..Len(w) |-> Lower(w[i])]

\* needle in w
Contains(w, needle) ==
    \E p \in 1..(Len(w) - Len(needle) + 1) :
      SubSeq(w, p, p + Len(needle) - 1) = needle

\* The characters of the mails that \s matches
IsSpace(c) == c \in {" ", "\n"}

\* The text lit stands in w at position p, case ignored
LitAt(w, p, lit) ==
    /\ p + Len(lit) - 1 <= Len(w)
    /\ \A j \in 1..Len(lit) : Lower(w[p + j - 1]) = Lower(lit[j])

\* \s* from position p on: the position of the first character that is
\* not white space
RECURSIVE SkipSpace(_, _)
SkipSpace(w, p) ==
    IF p <= Len(w) /\ IsSpace(w[p]) THEN SkipSpace(w, p + 1) ELSE p

\* The five patterns, in the order of the list: the text before \s*, the
\* text between \s* and the digits, the text after the digits.
CodePatterns ==
    <<[lit |-> <<"v", "e", "r", "i", "f", "i", "c", "a", "t", "i", "o",
                 "n", " ", "c", "o", "d", "e", " ", "i", "s", ":">>,
       ws |-> TRUE, open |-> <<>>, close |-> <<>>],
      [lit |-> <<"v", "e", "r", "i", "f", "i", "c", "a", "t", "i", "o",
                 "n", " ", "c", "o", "d", "e", " ", "i", "s", ":">>,
       ws |-> TRUE, open |-> <<"<", "b", ">">>, close |-> <<"<", "/",
                                                            "b", ">">>],
      [lit |-> <<"c", "o", "d", "e", " ", "i", "s", ":">>,
       ws |-> TRUE, open |-> <<>>, close |-> <<>>],
      [lit |-> <<"c", "o", "d", "e", ":">>,
       ws |-> TRUE, open |-> <<>>, close |-> <<>>],
      [lit |-> <<>>, ws |-> FALSE, open |-> <<>>, close |-> <<>>]>>

\* The pattern matches w from position p: the captured group, else None
MatchAt(pat, w, p) ==
    IF ~LitAt(w, p, pat.lit) THEN PyNone
    ELSE LET q == IF pat.ws THEN SkipSpace(w, p + Len(pat.lit))
                            ELSE p + Len(pat.lit)
             d == q + Len(pat.open)
         IN IF /\ LitAt(w, q, pat.open)
               /\ d + CodeLen - 1 <= Len(w)
               /\ \A j \in 0..(CodeLen - 1) : IsDigit(w[d + j])
               /\ LitAt(w, d + CodeLen, pat.close)
              THEN PyStr(SubSeq(w, d, d + CodeLen - 1))
              ELSE PyNone

\* re.search(pattern, w, re.IGNORECASE): group(1) of the leftmost match
re_search(pat, w) ==
    LET starts == {p \in 1..(Len(w) + 1) : MatchAt(pat, w, p) # PyNone} IN
    IF starts = {} THEN PyNone
    ELSE MatchAt(pat, w, CHOOSE p \in starts : \A r \in starts : p <= r)

AugmentDomain == <<"a", "u", "g", "m", "e", "n", "t", "c", "o", "d", "e",
                   ".", "c", "o", "m">>

\* Faulty variant: every sender is accepted.
AnySender(from_addr) == TRUE
\* 'augmentcode.com' in from_addr.lower()
IsAugmentSender(from_addr) == Contains(LowerStr(from_addr), AugmentDomain)

\* The try block of an attempt ended without a return
NoCode == [t |-> "nocode"]

\* "for pattern in patterns", from the pattern of index i on
RECURSIVE FirstMatch(_, _)
FirstMatch(content, i) ==
    IF i > Len(CodePatterns) THEN NoCode
    ELSE IF content.t # "str" THEN Exc("TypeError")
    ELSE LET match == re_search(CodePatterns[i], content.s) IN
         IF match # PyNone THEN match ELSE FirstMatch(content, i + 1)

\* "for email_data in emails", from the mail of index i on
RECURSIVE ScanMails(_, _)
ScanMails(emails, i) ==
    IF i > Len(emails) THEN NoCode
    ELSE LET email_data == emails[i]
             from_addr == DictGet(email_data, "from", EmptyStr)
             content == DictGet(email_data, "content", EmptyStr)
         IN IF IsExc(from_addr) THEN from_addr
            ELSE IF from_addr.t # "str" THEN Exc("AttributeError")
            ELSE IF ~IsAugmentSender(from_addr.s)
              THEN ScanMails(emails, i + 1)
            ELSE LET code == FirstMatch(content, 1) IN
                 IF code = NoCode THEN ScanMails(emails, i + 1) ELSE code

\* The body of the try block, given what the request produced
AttemptBody(o) ==
    LET data == Exchange(o) IN
    IF IsExc(data) THEN data
    ELSE LET emails == DictGet(data, "emails", PyNone) IN
         IF IsExc(emails) THEN emails
         ELSE IF ~Truthy(emails) THEN NoCode
         ELSE IF emails.t = "list" THEN ScanMails(emails.items, 1)
         ELSE IF emails.t \in {"str", "dict"} THEN Exc("AttributeError")
         ELSE Exc("TypeError")

\* Faulty variant: an attempt without its "except Exception" clause.
AttemptNoCatchAll(o) ==
    TryExcept(AttemptBody(o), <<"HTTPError", "URLError">>, NoCode)
\* One attempt with its except clauses
Attempt(o) ==
    TryExcept(AttemptBody(o), <<"HTTPError", "URLError", "Exception">>,
              NoCode)

\* Senders and contents of the mails
FromAugment == <<"s", "u", "p", "p", "o", "r", "t", "@", "a", "u", "g",
                 "m", "e", "n", "t", "c", "o", "d", "e", ".", "c", "o",
                 "m">>
FromUpper   == <<"N", "o", "-", "R", "e", "p", "l", "y", "@", "A", "u",
                 "g", "m", "e", "n", "t", "C", "o", "d", "e", ".", "C",
                 "O", "M">>
FromOther   == <<"a", "@", "o", "t", "h", "e", "r", ".", "c", "o", "m">>
FromNear    == <<"x", "@", "a", "u", "g", "m", "e", "n", "t", "c", "o",
                 "d", "e", ".", "c", "o">>
CtPlain   == <<"v", "e", "r", "i", "f", "i", "c", "a", "t", "i", "o",
               "n", " ", "c", "o", "d", "e", " ", "i", "s", ":", " ",
               "1", "2", "3", "4", "5", "6">>
CtBold    == <<"v", "e", "r", "i", "f", "i", "c", "a", "t", "i", "o",
               "n", " ", "c", "o", "d", "e", " ", "i", "s", ":", " ",
               "<", "b", ">", "1", "2", "3", "4", "5", "6", "<", "/",
               "b", ">">>
CtUpper   == <<"V", "e", "r", "i", "f", "i", "c", "a", "t", "i", "o",
               "n", " ", "C", "o", "d", "e", " ", "I", "s", ":", "\n",
               "1", "2", "3", "4", "5", "6">>
CtCodeIs  == <<"y", "o", "u", "r", " ", "c", "o", "d", "e", " ", "i",
               "s", ":", "6", "5", "4", "3", "2", "1">>
CtCode    == <<"c", "o", "d", "e", ":", " ", "1", "2", "3", "4", "5",
               "6", ".">>
CtBare    == <<"p", "i", "n", " ", "6", "5", "4", "3", "2", "1">>
CtSeven   == <<"r", "e", "f", " ", "1", "2", "3", "4", "5", "6", "7">>
CtFive    == <<"c", "o", "d", "e", ":", " ", "1", "2", "3", "4", "5">>
CtText    == <<"w", "e", "l", "c", "o", "m", "e">>
CtLate    == <<"i", "d", " ", "6", "5", "4", "3", "2", "1", " ", "v",
               "e", "r", "i", "f", "i", "c", "a", "t", "i", "o", "n",
               " ", "c", "o", "d", "e", " ", "i", "s", ":", " ", "1",
               "2", "3", "4", "5", "6">>
CtTwo     == <<"c", "o", "d", "e", ":", " ", "6", "5", "4", "3", "2",
               "1", " ", "c", "o", "d", "e", " ", "i", "s", ":", " ",
               "1", "2", "3", "4", "5", "6">>
CtShort   == <<"v", "e", "r", "i", "f", "i", "c", "a", "t", "i", "o",
               "n", " ", "c", "o", "d", "e", " ", "i", "s", ":", " ",
               "1", "2", "3", "4", "5", " ", "o", "r", " ", "6", "5",
               "4", "3", "2", "1">>
CtHalfTag == <<"c", "o", "d", "e", " ", "i", "s", ":", " ", "<", "b",
               ">", "6", "5", "4", "3", "2", "1", " ", "1", "2", "3",
               "4", "5", "6">>

FromVals == {PyStr(FromAugment), PyStr(FromUpper), PyStr(FromOther),
             PyStr(FromNear), EmptyStr, PyNone}
ContentVals ==
    {PyStr(c) : c \in {CtPlain, CtBold, CtUpper, CtCodeIs, CtCode, CtBare,
                       CtSeven, CtFive, CtText, CtLate, CtTwo, CtShort,
                       CtHalfTag}}
      \cup {EmptyStr, PyNone, PyInt(1)}

Mail(from_addr, content) ==
    PyDict(<< <<"from", from_addr>>, <<"content", content>> >>)

\* The lists under 'emails': one mail, or two mails
MailLists ==
    {<<Mail(f, c)>> : f \in FromVals, c \in ContentVals}
      \cup {<<PyDict(<< <<"content", PyStr(CtPlain)>> >>)>>,
            <<PyDict(<< <<"from", PyStr(FromAugment)>> >>)>>,
            <<PyStr(CtPlain)>>,
            <<Mail(PyStr(FromOther), PyStr(CtBare)),
              Mail(PyStr(FromAugment), PyStr(CtLate))>>,
            <<Mail(PyStr(FromAugment), PyStr(CtText)),
              Mail(PyStr(FromUpper), PyStr(CtCodeIs))>>,
            <<Mail(PyStr(FromAugment), PyStr(CtBare)),
              Mail(PyStr(FromAugment), PyStr(CtPlain))>>,
            <<Mail(PyNone, PyStr(CtPlain)),
              Mail(PyStr(FromAugment), PyStr(CtPlain))>>,
            <<Mail(PyStr(FromAugment), PyStr(CtPlain)),
              Mail(PyNone, PyStr(CtPlain))>>,
            <<Mail(PyStr(FromAugment), PyNone),
              Mail(PyStr(FromAugment), PyStr(CtPlain))>>,
            <<Mail(PyStr(FromOther), PyStr(CtPlain)),
              Mail(PyStr(FromNear), PyStr(CtCode))>>}

\* What one request can produce: an exception, or the decoded answer
MailOutcomes ==
    Failures
      \cup {Answer(b) : b \in {PyNone, PyList(<<>>), EmptyDict, PyInt(1)}}
      \cup {Answer(PyDict(<< <<"emails", e>> >>)) :
              e \in {PyNone, PyList(<<>>), PyInt(1), PyStr(CtPlain),
                     Mail(PyStr(FromAugment), PyStr(CtPlain))}}
      \cup {Answer(PyDict(<< <<"emails", PyList(l)>> >>)) : l \in MailLists}

VcInit ==
    /\ vcPc = "loop"
    /\ vcAttempt = 0
    /\ vcRequests = 0
    /\ vcLast = PyNone
    /\ vcRet = PyNone

\* One iteration of "for attempt in range(max_retries)"
VcAttempt ==
    /\ vcPc = "loop"
    /\ vcAttempt < max_retries
    /\ \E o \in MailOutcomes :
         LET r == Attempt(o) IN
         /\ vcLast' = o
         /\ vcRequests' = vcRequests + 1
         /\ IF IsExc(r)
              THEN vcPc' = "raised" /\ vcRet' = r /\ UNCHANGED vcAttempt
              ELSE IF r = NoCode
              THEN vcPc' = "loop" /\ vcAttempt' = vcAttempt + 1
                   /\ UNCHANGED vcRet
              ELSE vcPc' = "done" /\ vcRet' = r /\ UNCHANGED vcAttempt
    /\ UNCHANGED vcOthers

\* The loop is over: "return None"
VcGiveUp ==
    /\ vcPc = "loop"
    /\ vcAttempt = max_retries
    /\ vcPc' = "done"
    /\ vcRet' = PyNone
    /\ UNCHANGED <<vcAttempt, vcRequests, vcLast, vcOthers>>

(***************************************************************************)
(*               augment_register.wait_for_onboard_redirect                *)
(* A poll is one cdp.send("Target.getTargets"): by CDPClient.send it       *)
(* raises when the connection is closed, gives None, or gives a message.   *)
(***************************************************************************)
max_wait_seconds == 60
ShortDelay == 1     \* human_delay(1.0), in seconds
LongDelay  == 2     \* human_delay(2.0), in seconds

SendRaised   == [k |-> "raised"]
SendNone     == [k |-> "None"]
SendResp(b)  == [k |-> "resp", body |-> b]

\* v[key]
Subscript(v, key) ==
    IF IsExc(v) THEN v
    ELSE IF v.t # "dict" THEN Exc("TypeError")
    ELSE IF HasKey(v, key) THEN DictGet(v, key, PyNone)
    ELSE Exc("KeyError")

OnboardPath == <<"a", "p", "p", ".", "a", "u", "g", "m", "e", "n", "t",
                 "c", "o", "d", "e", ".", "c", "o", "m", "/", "o", "n",
                 "b", "o", "a", "r", "d">>
UrlOnboard  == <<"h", "t", "t", "p", "s", ":", "/", "/", "a", "p", "p",
                 ".", "a", "u", "g", "m", "e", "n", "t", "c", "o", "d",
                 "e", ".", "c", "o", "m", "/", "o", "n", "b", "o", "a",
                 "r", "d">>
UrlLogin    == <<"h", "t", "t", "p", "s", ":", "/", "/", "l", "o", "g",
                 "i", "n", ".", "a", "u", "g", "m", "e", "n", "t", "c",
                 "o", "d", "e", ".", "c", "o", "m", "/", "u">>
UrlApp      == <<"h", "t", "t", "p", "s", ":", "/", "/", "a", "p", "p",
                 ".", "a", "u", "g", "m", "e", "n", "t", "c", "o", "d",
                 "e", ".", "c", "o", "m", "/">>
TypePage    == PyStr(<<"p", "a", "g", "e">>)
TypeFrame   == PyStr(<<"i", "f", "r", "a", "m", "e">>)

Target(type, url) == PyDict(<< <<"type", type>>, <<"url", url>> >>)

\* The lists under 'targetInfos'
TargetLists ==
    {<<>>,
     <<Target(TypePage, PyStr(UrlLogin))>>,
     <<Target(TypePage, PyStr(UrlOnboard))>>,
     <<Target(TypePage, PyStr(UrlApp))>>,
     <<Target(TypeFrame, PyStr(UrlOnboard))>>,
     <<Target(TypePage, PyStr(UrlLogin)), Target(TypePage, PyStr(UrlOnboard))>>,
     <<Target(TypeFrame, PyStr(UrlOnboard)), Target(TypePage, PyStr(UrlLogin))>>,
     <<PyDict(<< <<"type", TypePage>> >>)>>,
     <<PyDict(<< <<"url", PyStr(UrlOnboard)>> >>)>>,
     <<Target(TypePage, PyNone), Target(TypePage, PyStr(UrlOnboard))>>,
     <<Target(TypePage, PyStr(UrlOnboard)), Target(TypePage, PyNone)>>,
     <<PyNone, Target(TypePage, PyStr(UrlOnboard))>>}

\* The messages send() can return for Target.getTargets
TargetAnswers ==
    {PyDict(<< <<"id", PyInt(1)>>, <<"error", EmptyDict>> >>),
     PyDict(<< <<"id", PyInt(1)>>, <<"result", EmptyDict>> >>),
     PyDict(<< <<"id", PyInt(1)>>,
               <<"result", PyDict(<< <<"targetInfos", PyNone>> >>)>> >>)}
      \cup {PyDict(<< <<"id", PyInt(1)>>,
                      <<"result", PyDict(<< <<"targetInfos", PyList(l)>> >>)>>
                   >>) : l \in TargetLists}

\* What a poll can bring, on an open and on a closed connection
SendOutcomes(open) ==
    IF open THEN {SendNone} \cup {SendResp(b) : b \in TargetAnswers}
            ELSE {SendRaised}

\* The seconds a send() can take: it ends at once or when recv() times out
SendTimes == {0, RecvTimeout}

\* Faulty variant: a target of any type counts.
AnyType(type) == TRUE
\* target.get("type") == "page"
IsPage(type) == PyEq(type, TypePage)

\* The poll brought nothing to read; no target is the onboard page
NoAnswer == [t |-> "noanswer"]
NoTarget == [t |-> "notarget"]

\* "for target in targets", from the target of index i on
RECURSIVE ScanTargets(_, _)
ScanTargets(targets, i) ==
    IF i > Len(targets) THEN NoTarget
    ELSE LET target == targets[i]
             type == DictGet(target, "type", PyNone)
         IN IF IsExc(type) THEN type
            ELSE IF ~IsPage(type) THEN ScanTargets(targets, i + 1)
            ELSE LET url == DictGet(target, "url", EmptyStr) IN
                 IF url.t # "str" THEN Exc("TypeError")
                 ELSE IF Contains(url.s, OnboardPath) THEN PyTrue
                 ELSE ScanTargets(targets, i + 1)

\* The body of the while loop, given what send() returned
PollBody(o) ==
    IF o.k = "None" THEN NoAnswer
    ELSE IF ~Truthy(o.body) \/ ~HasKey(o.body, "result") THEN NoAnswer
    ELSE LET targets == Subscript(Subscript(o.body, "result"), "targetInfos")
         IN IF IsExc(targets) THEN targets
            ELSE IF targets.t = "list" THEN ScanTargets(targets.items, 1)
            ELSE IF targets.t \in {"str", "dict"} THEN Exc("AttributeError")
            ELSE Exc("TypeError")

\* time.time() - start_time < max_wait_seconds
InTime(elapsed) == elapsed < max_wait_seconds

WrInit ==
    /\ wrPc = "start"
    /\ wrOpen = FALSE
    /\ wrElapsed = 0
    /\ wrLast = PyNone
    /\ wrRetried = FALSE
    /\ wrRet = PyNone

\* cdp = CDPClient(ws_url), before the try block
WrConnect ==
    /\ wrPc = "start"
    /\ \/ wrPc' = "test" /\ wrOpen' = TRUE /\ UNCHANGED wrRet
       \/ wrPc' = "raised" /\ wrOpen' = FALSE
          /\ wrRet' = Exc("WebSocketException")
    /\ UNCHANGED <<wrElapsed, wrLast, wrRetried, wrOthers>>

\* The while test; when it fails, "return False" and the finally clause
WrTest ==
    /\ wrPc = "test"
    /\ IF InTime(wrElapsed)
         THEN wrPc' = "poll" /\ UNCHANGED <<wrOpen, wrRet>>
         ELSE wrPc' = "done" /\ wrRet' = PyFalse /\ wrOpen' = FALSE
    /\ UNCHANGED <<wrElapsed, wrLast, wrRetried, wrOthers>>

\* One iteration of the while loop: the poll, the scan of the targets and
\* the delay; a recv() that failed may have found the connection closed.
WrPoll ==
    /\ wrPc = "poll"
    /\ \E o \in SendOutcomes(wrOpen), took \in SendTimes, closed \in BOOLEAN :
         /\ closed => o.k = "None"
         /\ wrLast' = o
         /\ IF o.k = "raised"
              THEN /\ wrPc' = "raised"
                   /\ wrRet' = Exc("WebSocketConnectionClosedException")
                   /\ wrOpen' = FALSE
                   /\ UNCHANGED <<wrElapsed, wrRetried>>
              ELSE LET r == PollBody(o) IN
                   IF IsExc(r)
                     THEN /\ wrPc' = "raised" /\ wrRet' = r
                          /\ wrOpen' = FALSE
                          /\ wrElapsed' = wrElapsed + took
                          /\ UNCHANGED wrRetried
                   ELSE IF r = PyTrue
                     THEN /\ wrPc' = "done" /\ wrRet' = PyTrue
                          /\ wrOpen' = FALSE
                          /\ wrElapsed' = wrElapsed + took
                          /\ UNCHANGED wrRetried
                   ELSE /\ wrPc' = "test"
                        /\ wrOpen' = ~closed
                        /\ wrElapsed' = wrElapsed + took
                             + (IF r = NoAnswer THEN ShortDelay ELSE LongDelay)
                        /\ wrRetried' = (wrRetried \/ o.k = "None")
                        /\ UNCHANGED wrRet
    /\ UNCHANGED wrOthers

(***************************************************************************)
(*                  augment_register.main, steps 5 to 12                   *)
(* A step calls one helper; the helper gives its value or raises (each     *)
(* helper builds a CDPClient of its own).                                  *)
(***************************************************************************)
MainEmail   == PyStr(<<"u", "@", "a", ".", "i", "o">>)
MainLink    == PyStr(<<"h", "t", "t", "p", "s", ":", "/", "/", "p", "a",
                       "y">>)
MainSession == PyStr(<<"s", "1">>)

\* A file main writes: not there, created but not written to the end,
\* written
NoFile      == "absent"
PartFile    == "partial"
WrittenFile == "written"

\* "with open(name, 'w') as f: f.write(text)": the file afterwards and
\* whether an exception left the block
WriteOutcomes ==
    {[file |-> WrittenFile, exc |-> FALSE],
     [file |-> NoFile, exc |-> TRUE],
     [file |-> PartFile, exc |-> TRUE]}

\* Faulty variant: one of the two results is enough.
ShouldAutoCloseEither(payment_link_success, session_success) ==
    payment_link_success \/ session_success
\* should_auto_close = payment_link_success and session_success
should_auto_close(payment_link_success, session_success) ==
    payment_link_success /\ session_success

MnInit ==
    /\ mnPc = "step5"
    /\ mnEmail = PyNone
    /\ mnLink = PyNone
    /\ mnSession = PyNone
    /\ mnLinkFile = NoFile
    /\ mnSessionFile = NoFile
    /\ mnLinkOk = FALSE
    /\ mnSessionOk = FALSE
    /\ mnEntered = FALSE
    /\ mnClose = "none"

\* Steps 5 and 6: email = get_email_from_browser(ws_url)
MnGetEmail ==
    /\ mnPc = "step5"
    /\ \/ \E e \in {PyNone, EmptyStr, MainEmail} : mnEmail' = e /\ mnPc' = "step7"
       \/ mnPc' = "raised" /\ UNCHANGED mnEmail
    /\ UNCHANGED <<mnLink, mnSession, mnLinkFile, mnSessionFile, mnLinkOk,
                   mnSessionOk, mnEntered, mnClose, mnOthers>>

\* Steps 7, 8 and 9: switch_to_augment_and_signin, fill_verification_code,
\* wait_for_onboard_redirect; a failure sets email = None
MnHelperStep(here, next) ==
    /\ mnPc = here
    /\ IF Truthy(mnEmail)
         THEN \/ \E success \in BOOLEAN :
                   /\ mnEmail' = IF success THEN mnEmail ELSE PyNone
                   /\ mnPc' = next
              \/ mnPc' = "raised" /\ UNCHANGED mnEmail
         ELSE mnPc' = next /\ UNCHANGED mnEmail
    /\ UNCHANGED <<mnLink, mnSession, mnLinkFile, mnSessionFile, mnLinkOk,
                   mnSessionOk, mnEntered, mnClose, mnOthers>>

MnSignin       == MnHelperStep("step7", "step8")
MnFillCode     == MnHelperStep("step8", "step9")
MnWaitRedirect == MnHelperStep("step9", "step10")

\* Step 10: get_payment_method_link and the file payment_link_*.txt
MnPaymentLink ==
    /\ mnPc = "step10"
    /\ IF Truthy(mnEmail)
         THEN \/ \E link \in {PyNone, EmptyStr, MainLink} :
                   /\ mnLink' = link
                   /\ mnPc' = "step11"
                   /\ IF Truthy(link)
                        THEN \E w \in WriteOutcomes :
                               /\ mnLinkFile' = w.file
                               /\ mnLinkOk' = ~w.exc
                        ELSE mnLinkFile' = NoFile /\ mnLinkOk' = FALSE
              \/ mnPc' = "raised" /\ mnLinkOk' = FALSE
                 /\ UNCHANGED <<mnLink, mnLinkFile>>
         ELSE mnPc' = "step11" /\ mnLinkOk' = FALSE
              /\ UNCHANGED <<mnLink, mnLinkFile>>
    /\ UNCHANGED <<mnEmail, mnSession, mnSessionFile, mnSessionOk, mnEntered,
                   mnClose, mnOthers>>

\* Step 11: get_session_cookie and the file session_*.txt
MnSessionCookie ==
    /\ mnPc = "step11"
    /\ IF Truthy(mnEmail)
         THEN \/ \E session \in {PyNone, EmptyStr, MainSession} :
                   /\ mnSession' = session
                   /\ mnPc' = "step12"
                   /\ IF Truthy(session)
                        THEN \E w \in WriteOutcomes :
                               /\ mnSessionFile' = w.file
                               /\ mnSessionOk' = ~w.exc
                        ELSE mnSessionFile' = NoFile /\ mnSessionOk' = FALSE
              \/ mnPc' = "raised" /\ mnSessionOk' = FALSE
                 /\ UNCHANGED <<mnSession, mnSessionFile>>
         ELSE mnPc' = "step12" /\ mnSessionOk' = FALSE
              /\ UNCHANGED <<mnSession, mnSessionFile>>
    /\ UNCHANGED <<mnEmail, mnLink, mnLinkFile, mnLinkOk, mnEntered,
                   mnClose, mnOthers>>

\* Step 12: with should_auto_close, BitBrowserAPI.close_window at once;
\* otherwise main stops in input()
MnDecide ==
    /\ mnPc = "step12"
    /\ IF should_auto_close(mnLinkOk, mnSessionOk)
         THEN mnPc' = "end" /\ mnClose' = "auto"
         ELSE mnPc' = "input" /\ UNCHANGED mnClose
    /\ UNCHANGED <<mnEmail, mnLink, mnSession, mnLinkFile, mnSessionFile,
                   mnLinkOk, mnSessionOk, mnEntered, mnOthers>>

\* The user presses Enter and input() returns
MnEnter ==
    /\ mnPc = "input"
    /\ mnPc' = "manual"
    /\ mnEntered' = TRUE
    /\ UNCHANGED <<mnEmail, mnLink, mnSession, mnLinkFile, mnSessionFile,
                   mnLinkOk, mnSessionOk, mnClose, mnOthers>>

\* BitBrowserAPI.close_window(browser_id) after input()
MnManualClose ==
    /\ mnPc = "manual"
    /\ mnPc' = "end"
    /\ mnClose' = "manual"
    /\ UNCHANGED <<mnEmail, mnLink, mnSession, mnLinkFile, mnSessionFile,
                   mnLinkOk, mnSessionOk, mnEntered, mnOthers>>

(***************************************************************************)
(*     augment_register.click_cloudflare_verify and                        *)
(*     cloudflare_bypass_bitbrowser.find_cloudflare_element                *)
(* One action is one cdp.send of the function, with what follows it up to  *)
(* the next one.                                                           *)
(***************************************************************************)
ClickSelectors ==
    <<"div[id*=\"ulp-\"]",
      "div[class*=\"ulp-\"]",
      "div[id*=\"captcha\"]",
      "div[class*=\"captcha\"]",
      "iframe[src*=\"challenges.cloudflare.com\"]",
      "div[id*=\"cf-\"]",
      "div[class*=\"cf-\"]",
      "input[type=\"checkbox\"][id*=\"cf\"]",
      "iframe[title*=\"cloudflare\"]",
      "iframe[src*=\"captcha\"]">>
FindSelectors ==
    <<"div[id*=\"ulp-\"]",
      "div[class*=\"ulp-\"]",
      "div[id*=\"captcha\"]",
      "div[class*=\"captcha\"]",
      "iframe[src*=\"challenges.cloudflare.com\"]",
      "div[id*=\"cf-\"]",
      "div[class*=\"cf-\"]">>
Selectors(fn) == IF fn = "click" THEN ClickSelectors ELSE FindSelectors

\* What the function returns when it found nothing: False, or None
NotFound(fn) == IF fn = "click" THEN PyFalse ELSE PyNone

\* The clicks of the mouse: mouseMoved, mousePressed, mouseReleased
MouseEvents == 3

CdpReply(fields) == PyDict(<< <<"id", PyInt(1)>> >> \o fields)
CdpError == CdpReply(<< <<"error", EmptyDict>> >>)
CdpResult(v) == CdpReply(<< <<"result", v>> >>)

\* The messages send() can return for DOM.getDocument
DocAnswers ==
    {CdpError, CdpResult(EmptyDict),
     CdpResult(PyDict(<< <<"root", PyDict(<< <<"nodeId", PyInt(1)>> >>)>> >>))}

\* The messages send() can return for DOM.querySelectorAll
QueryAnswers ==
    {CdpError, CdpResult(EmptyDict), CdpResult(PyNone)}
      \cup {CdpResult(PyDict(<< <<"nodeIds", ids>> >>)) :
              ids \in {PyNone, PyList(<<>>), PyList(<<PyInt(7)>>),
                       PyList(<<PyInt(7), PyInt(8)>>), PyList(<<PyInt(0)>>)}}

\* The messages send() can return for DOM.getBoxModel: 'content' holds the
\* eight coordinates of the box
BoxAnswers ==
    {CdpError, CdpResult(EmptyDict),
     CdpResult(PyDict(<< <<"model", PyDict(<< <<"content",
        PyList(<<PyInt(0), PyInt(0), PyInt(4), PyInt(0), PyInt(4), PyInt(2),
                 PyInt(0), PyInt(2)>>)>> >>)>> >>))}

\* The messages send() can return for Runtime.evaluate
JsAnswers ==
    {CdpError, CdpResult(EmptyDict),
     CdpResult(PyDict(<< <<"result", PyDict(<< <<"value", PyTrue>> >>)>> >>)),
     CdpResult(PyDict(<< <<"result", PyDict(<< <<"value", PyFalse>> >>)>> >>))}

\* What one cdp.send can bring, on an open and on a closed connection
CfSend(open, answers) ==
    IF open THEN {SendNone} \cup {SendResp(b) : b \in answers}
            ELSE {SendRaised}

\* "not result or 'result' not in result"
NoResult(o) ==
    o.k = "None" \/ ~Truthy(o.body) \/ ~HasKey(o.body, "result")

\* Faulty variant: the last node of the list is taken.
LastNode(node_ids) ==
    IF node_ids.t # "list" THEN Exc("TypeError")
    ELSE IF node_ids.items = <<>> THEN Exc("IndexError")
    ELSE node_ids.items[Len(node_ids.items)]
\* node_ids[0]
FirstNode(node_ids) ==
    IF node_ids.t # "list" THEN Exc("TypeError")
    ELSE IF node_ids.items = <<>> THEN Exc("IndexError")
    ELSE node_ids.items[1]

\* The test of a DOM.querySelectorAll answer and the node it gives: the
\* node, NoTarget when the selector matched nothing, or an exception
QueryNode(o) ==
    IF NoResult(o) THEN NoTarget
    ELSE LET node_ids == DictGet(Subscript(o.body, "result"), "nodeIds",
                                 PyNone)
         IN IF IsExc(node_ids) THEN node_ids
            ELSE IF ~Truthy(node_ids) THEN NoTarget
            ELSE FirstNode(node_ids)

CfInit ==
    /\ cfFn = "click"
    /\ cfPc = "start"
    /\ cfOpen = TRUE
    /\ cfTried = <<>>
    /\ cfLast = PyNone
    /\ cfNode = PyNone
    /\ cfMatched = PyNone
    /\ cfMouse = 0
    /\ cfRet = PyNone

\* The function called and the connection it is given
CfInputs ==
    /\ cfFn \in {"click", "find"}
    /\ cfPc = "start"
    /\ cfOpen \in BOOLEAN
    /\ cfTried = <<>>
    /\ cfLast = PyNone
    /\ cfNode = PyNone
    /\ cfMatched = PyNone
    /\ cfMouse = 0
    /\ cfRet = PyNone

\* cdp.send("DOM.getDocument") and the read of the root node
CfGetDocument ==
    /\ cfPc = "start"
    /\ \E o \in CfSend(cfOpen, DocAnswers), closed \in BOOLEAN :
         /\ closed => o.k = "None"
         /\ cfOpen' = (cfOpen /\ ~closed)
         /\ IF o.k = "raised"
              THEN cfPc' = "raised" /\ cfRet' = Exc("WebSocketException")
              ELSE IF NoResult(o)
              THEN cfPc' = "done" /\ cfRet' = NotFound(cfFn)
              ELSE LET root_node_id ==
                         Subscript(Subscript(Subscript(o.body, "result"),
                                             "root"), "nodeId")
                   IN IF IsExc(root_node_id)
                        THEN cfPc' = "raised" /\ cfRet' = root_node_id
                        ELSE cfPc' = "loop" /\ UNCHANGED cfRet
    /\ UNCHANGED <<cfFn, cfTried, cfLast, cfNode, cfMatched, cfMouse,
                   cfOthers>>

\* One iteration of "for selector in selectors"
CfQuery ==
    /\ cfPc = "loop"
    /\ Len(cfTried) < Len(Selectors(cfFn))
    /\ LET selector == Selectors(cfFn)[Len(cfTried) + 1] IN
       /\ cfTried' = Append(cfTried, selector)
       /\ \E o \in CfSend(cfOpen, QueryAnswers), closed \in BOOLEAN :
            /\ closed => o.k = "None"
            /\ cfOpen' = (cfOpen /\ ~closed)
            /\ cfLast' = o
            /\ IF o.k = "raised"
                 THEN /\ cfPc' = "raised"
                      /\ cfRet' = Exc("WebSocketException")
                      /\ UNCHANGED <<cfNode, cfMatched>>
                 ELSE LET node == QueryNode(o) IN
                      IF IsExc(node)
                        THEN /\ cfPc' = "raised" /\ cfRet' = node
                             /\ UNCHANGED <<cfNode, cfMatched>>
                      ELSE IF node = NoTarget
                        THEN UNCHANGED <<cfPc, cfRet, cfNode, cfMatched>>
                      ELSE IF cfFn = "find"
                        THEN /\ cfPc' = "done" /\ cfRet' = node
                             /\ UNCHANGED <<cfNode, cfMatched>>
                      ELSE /\ cfPc' = "after"
                           /\ cfNode' = node
                           /\ cfMatched' = selector
                           /\ UNCHANGED cfRet
    /\ UNCHANGED <<cfFn, cfMouse, cfOthers>>

\* The loop has tried every selector
CfLoopEnd ==
    /\ cfPc = "loop"
    /\ Len(cfTried) = Len(Selectors(cfFn))
    /\ IF cfFn = "find"
         THEN cfPc' = "done" /\ cfRet' = PyNone
         ELSE cfPc' = "after" /\ UNCHANGED cfRet
    /\ UNCHANGED <<cfFn, cfOpen, cfTried, cfLast, cfNode, cfMatched, cfMouse,
                   cfOthers>>

\* click_cloudflare_verify: "if not node_id: return False"
CfAfterLoop ==
    /\ cfPc = "after"
    /\ IF ~Truthy(cfNode)
         THEN cfPc' = "done" /\ cfRet' = PyFalse
         ELSE cfPc' = "box" /\ UNCHANGED cfRet
    /\ UNCHANGED <<cfFn, cfOpen, cfTried, cfLast, cfNode, cfMatched, cfMouse,
                   cfOthers>>

\* click_cloudflare_verify: cdp.send("DOM.getBoxModel"); without a box
\* the click is left to Runtime.evaluate
CfBoxModel ==
    /\ cfPc = "box"
    /\ \E o \in CfSend(cfOpen, BoxAnswers), closed \in BOOLEAN :
         /\ closed => o.k = "None"
         /\ cfOpen' = (cfOpen /\ ~closed)
         /\ IF o.k = "raised"
              THEN cfPc' = "raised" /\ cfRet' = Exc("WebSocketException")
              ELSE IF NoResult(o)
              THEN cfPc' = "js" /\ UNCHANGED cfRet
              ELSE LET content ==
                         Subscript(Subscript(Subscript(o.body, "result"),
                                             "model"), "content")
                   IN IF IsExc(content)
                        THEN cfPc' = "raised" /\ cfRet' = content
                        ELSE cfPc' = "mouse" /\ UNCHANGED cfRet
    /\ UNCHANGED <<cfFn, cfTried, cfLast, cfNode, cfMatched, cfMouse,
                   cfOthers>>

\* click_cloudflare_verify: the click by Runtime.evaluate and its result
CfJsClick ==
    /\ cfPc = "js"
    /\ \E o \in CfSend(cfOpen, JsAnswers) :
         IF o.k = "raised"
           THEN cfPc' = "raised" /\ cfRet' = Exc("WebSocketException")
           ELSE /\ cfPc' = "done"
                /\ cfRet' =
                     IF /\ ~NoResult(o)
                        /\ HasKey(Subscript(o.body, "result"), "result")
                        /\ Truthy(DictGet(Subscript(Subscript(o.body,
                             "result"), "result"), "value", PyNone))
                       THEN PyTrue ELSE PyFalse
    /\ UNCHANGED <<cfFn, cfOpen, cfTried, cfLast, cfNode, cfMatched, cfMouse,
                   cfOthers>>

\* click_cloudflare_verify: one cdp.send("Input.dispatchMouseEvent"); its
\* answer is not read; after the last one, "return True"
CfMouseEvent ==
    /\ cfPc = "mouse"
    /\ IF ~cfOpen
         THEN /\ cfPc' = "raised" /\ cfRet' = Exc("WebSocketException")
              /\ UNCHANGED <<cfMouse, cfOpen>>
         ELSE /\ cfMouse' = cfMouse + 1
              /\ cfOpen' \in BOOLEAN
              /\ IF cfMouse' = MouseEvents
                   THEN cfPc' = "done" /\ cfRet' = PyTrue
                   ELSE UNCHANGED <<cfPc, cfRet>>
    /\ UNCHANGED <<cfFn, cfTried, cfLast, cfNode, cfMatched, cfOthers>>

(***************************************************************************)
(*        EmailUtils.save_suffix, called by two script runs at once        *)
(* Each run reads the file, opens it for writing, which empties it, and    *)
(* writes its document when the file is closed.  Nothing in the code makes *)
(* one run wait for the other.                                             *)
(***************************************************************************)
Procs == {1, 2}
Other(p) == IF p = 1 THEN 2 ELSE 1

\* The address each run saves: their suffixes differ
CsEmail(p) == IF p = 1 THEN PyStr(<<"u", "@", "a">>) ELSE PyStr(<<"u",
                                                                  "@",
                                                                  "a", "a">>)

SfxOld == <<"@", "a", "a", "a">>

\* The files the two runs can find: none of them holds one of the two
\* suffixes
RaceFiles == {FileAbsent, FileJson(<<>>), FileJson(<<SfxOld>>)}

\* The length of the text json.dump(data, f, ensure_ascii=False, indent=2)
\* writes for a list of suffixes
RECURSIVE ItemsSize(_)
ItemsSize(list) ==
    IF list = <<>> THEN 0 ELSE Len(Head(list)) + 8 + ItemsSize(Tail(list))
DocSize(list) == IF list = <<>> THEN 20 ELSE 22 + ItemsSize(list)

\* The file after a run has written its document from position 0: a longer
\* document written by the other run since the file was opened keeps its
\* tail, and the text is no JSON any more
Overlay(file, list) ==
    IF file.t = "json" /\ DocSize(file.suffixes) > DocSize(list)
      THEN FileBroken
      ELSE FileJson(list)

CsInit ==
    /\ csPc = [p \in Procs |-> "start"]
    /\ csList = [p \in Procs |-> <<>>]
    /\ csRet = [p \in Procs |-> PyNone]
    /\ csOverlap = FALSE
    /\ csLastWriter = 0

\* save_suffix up to the test "suffix in data['suffixes']"
CsRead(p) ==
    /\ csPc[p] = "start"
    /\ LET suffix == _extract_suffix(CsEmail(p))
           list == _load_data(sfFile)
       IN IF suffix = PyNone
            THEN /\ csRet' = [csRet EXCEPT ![p] = PyFalse]
                 /\ csPc' = [csPc EXCEPT ![p] = "done"]
                 /\ UNCHANGED csList
          ELSE IF InList(suffix.s, list)
            THEN /\ csRet' = [csRet EXCEPT ![p] = PyTrue]
                 /\ csPc' = [csPc EXCEPT ![p] = "done"]
                 /\ UNCHANGED csList
          ELSE /\ csList' = [csList EXCEPT ![p] = Append(list, suffix.s)]
               /\ csPc' = [csPc EXCEPT ![p] = "open"]
               /\ UNCHANGED csRet
    /\ csOverlap' = (csOverlap \/ csPc[Other(p)] \in {"open", "dump"})
    /\ UNCHANGED <<csLastWriter, sfVars, csOthers>>

\* _save_data: open(filename, 'w'), which leaves the file empty, or fails
CsOpen(p) ==
    /\ csPc[p] = "open"
    /\ \/ /\ sfFile' = FileBroken
          /\ csPc' = [csPc EXCEPT ![p] = "dump"]
          /\ UNCHANGED csRet
       \/ /\ csRet' = [csRet EXCEPT ![p] = PyFalse]
          /\ csPc' = [csPc EXCEPT ![p] = "done"]
          /\ UNCHANGED sfFile
    /\ UNCHANGED <<csList, csOverlap, csLastWriter, sfEmail, sfRet, sfLog,
                   sfWrote, csOthers>>

\* _save_data: json.dump and the close of the file, and the return value
CsDump(p) ==
    /\ csPc[p] = "dump"
    /\ csPc' = [csPc EXCEPT ![p] = "done"]
    /\ \/ /\ sfFile' = Overlay(sfFile, csList[p])
          /\ csRet' = [csRet EXCEPT ![p] = PyTrue]
          /\ csLastWriter' = p
       \/ /\ sfFile' = FileBroken
          /\ csRet' = [csRet EXCEPT ![p] = PyFalse]
          /\ UNCHANGED csLastWriter
    /\ UNCHANGED <<csList, csOverlap, sfEmail, sfRet, sfLog, sfWrote,
                   csOthers>>

CsReadStep == \E p \in Procs : CsRead(p)
CsOpenStep == \E p \in Procs : CsOpen(p)
CsDumpStep == \E p \in Procs : CsDump(p)

\* The parts of the state the first four specifications leave alone
ExtInit == GnInit /\ VcInit /\ WrInit /\ MnInit /\ CfInit /\ CsInit

Init == CDPInit /\ SfInit /\ sfFile = FileAbsent /\ ApiInit /\ ExtInit

CDPNext ==
    \/ Call
    \/ LoopCheck
    \/ RecvMsg
    \/ RecvTimedOut
    \/ RecvError
    \/ Tick
    \/ PeerSend
    \/ PeerClose

Next == CDPNext

Spec == Init /\ [][Next]_vars

LiveNext ==
    \/ Call
    \/ LoopCheck
    \/ RecvMsg
    \/ RecvTimedOut
    \/ RecvError
    \/ Tick
    \/ PeerSendForever
    \/ PeerClose

\* The interpreter runs the next statement, recv() comes back when a message
\* is there, the timeout is over or the connection is gone, and time passes.
LiveSpec ==
    /\ Init
    /\ [][LiveNext]_vars
    /\ WF_vars(LoopCheck)
    /\ WF_vars(RecvMsg \/ RecvTimedOut \/ RecvError)
    /\ WF_vars(Tick)

(***************************************************************************)
(*                     Properties of CDPClient.send                        *)
(***************************************************************************)

\* C1: the k-th send() call on a connection uses id k: the id counter equals
\* the number of calls made, whatever became of the earlier calls, every
\* request put on the wire by call k carries id k, a call that is waiting
\* has transmitted exactly that request, and no two requests share an id.
C1_SequentialIds ==
    /\ cdpId = calls
    /\ \A r \in sent : r[2] = r[1] /\ r[1] \in 1..calls
    /\ \A r1, r2 \in sent : r1[2] = r2[2] => r1 = r2
    /\ pc # "idle" => <<calls, calls>> \in sent

\* A second request went out with id 2 although no call ever got a response.
C1_Witness ==
    /\ <<1, 1>> \in sent
    /\ <<2, 2>> \in sent
    /\ returned = {}
    /\ result = RetNone

\* C2: send() returns a message only if it is a JSON object whose id is the
\* id of the request this very call sent; a message read with another id or
\* with none is dropped: it is no longer on the connection and is never the
\* result of this or of a later call.
C2_OnlyOwnResponse ==
    /\ result.kind = "resp" =>
         /\ result.msg.kind = "obj"
         /\ result.msg.id = cdpId
         /\ <<calls, result.msg.id>> \in sent
    /\ \A r \in returned : r.id = r.call /\ <<r.call, r.id>> \in sent
    /\ \A d \in discarded :
         /\ d.id # d.call
         /\ \A r \in returned : r.ser # d.ser
         /\ \A i \in 1..Len(inbox) : inbox[i].ser # d.ser

\* Call 2 dropped an event and a late response to request 1, then returned
\* its own response.
C2_Witness ==
    /\ \E d \in discarded : d.call = 2 /\ d.id = 1
    /\ \E d \in discarded : d.call = 2 /\ d.id = NoId
    /\ \E r \in returned : r.call = 2
    /\ result.kind = "resp"
    /\ calls = 2

\* C3: a finished send() call has given its caller the response or None, and
\* has not raised, whatever failed on the WebSocket.
C3_NoneOnEveryFailure ==
    (pc = "idle" /\ calls > 0) => result.kind \in {"resp", "None"}

\* C4: every send() call ends, and a call that has transmitted its request
\* and got no message with its id ends with None; when that is for want of
\* a message (the deadline or the socket timeout) the deadline has passed.
C4_SendTerminates ==
    /\ (pc # "idle") ~> (pc = "idle")
    /\ [](pc = "idle" /\ via \notin {"init", "ws.send", "match"}
            => result = RetNone)
    /\ [](pc = "idle" /\ via \in {"deadline", "timeout"} => now >= Deadline)

\* Messages with other ids kept arriving until the while test failed.
C4_Witness ==
    /\ pc = "idle"
    /\ via = "deadline"
    /\ result = RetNone
    /\ now >= Deadline
    /\ inbox # <<>>

(***************************************************************************)
(*                 The specification of save_suffix                        *)
(***************************************************************************)
SuffixInit == CDPInit /\ SfInit /\ ApiInit /\ ExtInit

SuffixNext == SaveSuffixCall

SuffixSpec == SuffixInit /\ [][SuffixNext]_vars

\* The number of '@' in a string.
RECURSIVE CountAt(_)
CountAt(w) ==
    IF w = <<>> THEN 0
    ELSE (IF Head(w) = "@" THEN 1 ELSE 0) + CountAt(Tail(w))

\* The suffix of a well-formed address: its text from the '@' on.
SuffixOf(w) ==
    LET i == CHOOSE k \in 1..Len(w) : w[k] = "@" IN SubSeq(w, i, Len(w))

WellFormed(email) ==
    /\ email # PyNone
    /\ CountAt(email.s) = 1
    /\ email.s[Len(email.s)] # "@"

Stored(file) == IF file.t = "json" THEN file.suffixes ELSE <<>>

NoDuplicates(list) ==
    \A i, j \in 1..Len(list) : list[i] = list[j] => i = j

Malformed(email) ==
    \/ email = PyNone
    \/ email.s = <<>>
    \/ CountAt(email.s) = 0
    \/ CountAt(email.s) > 1
    \/ email.s[Len(email.s)] = "@"

\* C6: save_suffix of a malformed address returns False and leaves the file
\* as it was: not created, not opened for writing.
C6_MalformedRejected ==
    [][ Malformed(sfEmail')
          => (sfRet' = PyFalse /\ sfFile' = sfFile /\ ~sfWrote')
      ]_sfVars

\* An address with two '@' was refused while the file held a suffix.
C6_Witness ==
    /\ sfEmail # PyNone
    /\ CountAt(sfEmail.s) = 2
    /\ sfLog = "invalid"
    /\ sfRet = PyFalse
    /\ ~sfWrote
    /\ Len(Stored(sfFile)) >= 1

(***************************************************************************)
(*                 The specification of BitBrowserAPI                      *)
(***************************************************************************)
ApiSpecInit == CDPInit /\ SfInit /\ sfFile = FileAbsent /\ ApiInputs /\ ExtInit

ApiNext ==
    \/ CreateWindow
    \/ OpenWindow
    \/ CloseWindow
    \/ FindWebsocket
    \/ MainOpenWindow

ApiSpec == ApiSpecInit /\ [][ApiNext]_vars

\* The value a JSON object holds under a key.
At(v, key) == v.items[CHOOSE i \in 1..Len(v.items) : v.items[i][1] = key][2]

IsObjectWith(v, key) == v.t = "dict" /\ HasKey(v, key)

\* The local API answered, and its answer says success.
ApiSuccess(o) ==
    /\ o.k = "json"
    /\ IsObjectWith(o.body, "success")
    /\ Truthy(At(o.body, "success"))

\* C7: create_window never raises; it returns the id under "data" when the
\* API answers success and the answer carries one, and None for every other
\* outcome of the exchange (success false, HTTP error, connection error,
\* malformed JSON, data missing or not an object).
C7_CreateWindowIdOrNone ==
    apiOp = "create_window" =>
      /\ ~IsExc(apiRet)
      /\ apiRet =
           IF /\ ApiSuccess(apiIn)
              /\ IsObjectWith(apiIn.body, "data")
              /\ IsObjectWith(At(apiIn.body, "data"), "id")
             THEN At(At(apiIn.body, "data"), "id")
             ELSE PyNone

\* A success answer whose data is null: the AttributeError is caught and the
\* call returns None.
C7_Witness ==
    /\ apiOp = "create_window"
    /\ ApiSuccess(apiIn)
    /\ IsObjectWith(apiIn.body, "data")
    /\ At(apiIn.body, "data") = PyNone
    /\ apiRet = PyNone

\* C8: open_window never raises and returns None on every failure; whatever
\* else it returns is a dict holding the WebSocket address under "ws", so
\* main, once past "if not result", connects to an address.
C8_OpenWindowResultHasWs ==
    /\ apiOp \in {"open_window", "main"} =>
         /\ ~IsExc(apiRet)
         /\ ~ApiSuccess(apiIn) => apiRet = PyNone
         /\ apiRet # PyNone =>
              /\ IsObjectWith(apiRet, "ws")
              /\ At(apiRet, "ws").t = "str"
    /\ mainPc # "raised"
    /\ mainPc = "connect" => mainWs.t = "str"

\* C9: close_window never raises, returns a bool, and returns True exactly
\* when the API answered with a truthy "success".
C9_CloseWindowTrueIffSuccess ==
    apiOp = "close_window" =>
      /\ apiRet \in {PyTrue, PyFalse}
      /\ apiRet = PyTrue <=> ApiSuccess(apiIn)

\* The API answered {"success": 1}: truthy, so the call returned True.
C9_Witness ==
    /\ apiOp = "close_window"
    /\ apiIn = Answer(PyDict(<< <<"success", PyInt(1)>> >>))
    /\ apiRet = PyTrue

\* The entries of the /browser/ports answer, in its order; none when the
\* call failed or no window is open.
PortEntries(o) ==
    IF /\ o.k = "json"
       /\ IsObjectWith(o.body, "success")
       /\ PyEq(At(o.body, "success"), PyTrue)
       /\ IsObjectWith(o.body, "data")
       /\ At(o.body, "data").t = "dict"
      THEN At(o.body, "data").items
      ELSE <<>>

\* A port is numeric when it is a number or a text of digits within blanks.
NumericPort(v) ==
    \/ v.t = "int"
    \/ /\ v.t = "str"
       /\ Strip(v.s) # <<>>
       /\ \A i \in 1..Len(Strip(v.s)) : IsDigit(Strip(v.s)[i])

PortOf(v) == IF v.t = "int" THEN v.n ELSE DigitsValue(Strip(v.s))

\* /json/version on the port reports a string starting with ws://
ReportsWs(env, port) ==
    /\ port \in DOMAIN env
    /\ env[port].k = "json"
    /\ IsObjectWith(env[port].body, "webSocketDebuggerUrl")
    /\ At(env[port].body, "webSocketDebuggerUrl").t = "str"
    /\ StartsWith(At(env[port].body, "webSocketDebuggerUrl").s, WsPrefix)

GoodEntries(o, env) ==
    {i \in 1..Len(PortEntries(o)) :
       /\ NumericPort(PortEntries(o)[i][2])
       /\ ReportsWs(env, PortOf(PortEntries(o)[i][2]))}

\* C10: find_websocket never raises; it returns the URL reported for the
\* first entry, in the order of the answer, whose port is numeric and whose
\* /json/version reports a ws:// string, and None when there is no such
\* entry (the API call failed, no window is open, every entry fails).
C10_FindWebsocketFirstGood ==
    apiOp = "find_websocket" =>
      /\ ~IsExc(apiRet)
      /\ LET good == GoodEntries(apiIn, apiEnv) IN
         IF good = {} THEN apiRet = PyNone
         ELSE LET first == CHOOSE i \in good : \A j \in good : i <= j
                  port == PortOf(PortEntries(apiIn)[first][2])
              IN apiRet = At(apiEnv[port].body, "webSocketDebuggerUrl")

\* The first window's port is not numeric, the second one's reports ws://b
\* and is returned.
C10_Witness ==
    /\ apiOp = "find_websocket"
    /\ Len(PortEntries(apiIn)) = 2
    /\ ~NumericPort(PortEntries(apiIn)[1][2])
    /\ GoodEntries(apiIn, apiEnv) = {2}
    /\ apiRet = WsB

(***************************************************************************)
(*                   Generating addresses: GenSpec                         *)
(* The arguments and the file are drawn at the start; then one of the two  *)
(* functions runs.                                                         *)
(***************************************************************************)
GenSpecInit ==
    /\ CDPInit
    /\ sfEmail = PyNone /\ sfRet = PyNone /\ sfLog = "init" /\ sfWrote = FALSE
    /\ ApiInit
    /\ GnInputs
    /\ VcInit /\ WrInit /\ MnInit /\ CfInit /\ CsInit

GenNext ==
    \/ GenerateRandomEmail
    \/ BatchStart
    \/ BatchStep
    \/ BatchReturn

GenSpec == GenSpecInit /\ [][GenNext]_vars

\* The text of an address before its first '@'.
UserPart(w) ==
    LET i == CHOOSE k \in 1..Len(w) :
                 w[k] = "@" /\ \A j \in 1..(k - 1) : w[j] # "@"
    IN SubSeq(w, 1, i - 1)

\* w is a user name followed by the suffix s.
EndsWithSuffix(w, s) ==
    /\ Len(w) >= Len(s)
    /\ SubSeq(w, Len(w) - Len(s) + 1, Len(w)) = s
    /\ ~HasAt(SubSeq(w, 1, Len(w) - Len(s)))

NumDots(w) == Cardinality({i \in 1..Len(w) : w[i] = "."})

C12_UserNameHasLength ==
    (gnOp = "email" /\ gnRet # PyNone) => Len(UserPart(gnRet.s)) = gnLen

\* C12, amended: the user name has username_length characters other than
\* dots; it has no dot unless use_dots is set and username_length exceeds 3,
\* and then it has one or two dots more than username_length characters.
C12_UserNameLengthPlusDots ==
    (gnOp = "email" /\ gnRet # PyNone) =>
      LET user == UserPart(gnRet.s) IN
      /\ Len(user) - NumDots(user) = gnLen
      /\ IF gnDots /\ gnLen > 3 THEN NumDots(user) \in {1, 2}
                                ELSE NumDots(user) = 0

\* use_dots with a length above 3: two dots were inserted.
C12_Witness ==
    /\ gnOp = "email"
    /\ gnRet # PyNone
    /\ gnDots
    /\ gnLen = 4
    /\ Len(UserPart(gnRet.s)) = 6

\* C13: with use_dots the user name never starts with a dot, never ends
\* with a dot and never holds two dots in a row.
C13_DotsWellPlaced ==
    (gnOp = "email" /\ gnRet # PyNone /\ gnDots) =>
      LET user == UserPart(gnRet.s) IN
      /\ user # <<>> => (user[1] # "." /\ user[Len(user)] # ".")
      /\ \A i \in 1..(Len(user) - 1) : ~(user[i] = "." /\ user[i + 1] = ".")

CodeSpecInit ==
    /\ CDPInit /\ SfInit /\ sfFile = FileAbsent /\ ApiInit
    /\ GnInit /\ VcInit /\ WrInit /\ MnInit /\ CfInit /\ CsInit

CodeNext ==
    \/ VcAttempt
    \/ VcGiveUp

CodeSpec == CodeSpecInit /\ [][CodeNext]_vars

\* The mails of an answer, when it has the expected shape.
MailsOf(o) ==
    IF /\ o.k = "json"
       /\ IsObjectWith(o.body, "emails")
       /\ At(o.body, "emails").t = "list"
      THEN At(o.body, "emails").items
      ELSE <<>>

SenderOf(m)  == IF HasKey(m, "from") THEN At(m, "from") ELSE EmptyStr
ContentOf(m) == IF HasKey(m, "content") THEN At(m, "content") ELSE EmptyStr

FromAugmentcode(m) ==
    /\ m.t = "dict"
    /\ SenderOf(m).t = "str"
    /\ Contains(LowerStr(SenderOf(m).s), AugmentDomain)

\* The patterns that match the content of a mail.
Matching(m) ==
    {i \in 1..Len(CodePatterns) :
       /\ ContentOf(m).t = "str"
       /\ re_search(CodePatterns[i], ContentOf(m).s) # PyNone}

\* A mail the scan cannot get past: it is no object, its sender is no text,
\* or it comes from augmentcode.com with a content that is no text.
Unreadable(m) ==
    \/ m.t # "dict"
    \/ SenderOf(m).t # "str"
    \/ FromAugmentcode(m) /\ ContentOf(m).t # "str"

\* The mails of an answer that can give the code: from augmentcode.com,
\* with a match, and reached by the scan.
CodeMails(o) ==
    {i \in 1..Len(MailsOf(o)) :
       /\ FromAugmentcode(MailsOf(o)[i])
       /\ Matching(MailsOf(o)[i]) # {}
       /\ \A j \in 1..(i - 1) : ~Unreadable(MailsOf(o)[j])}

FirstCodeMail(o) ==
    MailsOf(o)[CHOOSE i \in CodeMails(o) : \A j \in CodeMails(o) : i <= j]

FirstPattern(m) ==
    CodePatterns[CHOOSE i \in Matching(m) : \A j \in Matching(m) : i <= j]

\* C15: at most max_retries requests are made; the loop goes on only after
\* an attempt that yields no code and ends at the first attempt that yields
\* one; None is returned after exactly max_retries attempts without a code;
\* no exception leaves the function.
C15_AtMostTenRequests ==
    /\ vcRequests <= max_retries
    /\ vcPc # "raised"
    /\ (vcPc = "loop" /\ vcRequests > 0) => CodeMails(vcLast) = {}
    /\ vcPc = "loop" => vcRequests = vcAttempt
    /\ vcPc = "done" =>
         \/ /\ vcRet # PyNone
            /\ CodeMails(vcLast) # {}
            /\ vcRequests = vcAttempt + 1
         \/ /\ vcRet = PyNone
            /\ vcRequests = max_retries
            /\ CodeMails(vcLast) = {}

\* Ten attempts failed, the last one by an exception, and None is returned.
C15_Witness ==
    /\ vcPc = "done"
    /\ vcRet = PyNone
    /\ vcRequests = max_retries
    /\ vcLast.k = "exc"

\* C16: a returned code is a text of CodeLen digits, found in the content
\* of the first mail from augmentcode.com that any pattern matches, and it
\* is the group captured by the first pattern that matches that mail.
C16_CodeFromAugmentMail ==
    (vcPc = "done" /\ vcRet # PyNone) =>
      /\ vcRet.t = "str"
      /\ Len(vcRet.s) = CodeLen
      /\ \A i \in 1..Len(vcRet.s) : IsDigit(vcRet.s[i])
      /\ CodeMails(vcLast) # {}
      /\ LET m == FirstCodeMail(vcLast) IN
         /\ FromAugmentcode(m)
         /\ Contains(ContentOf(m).s, vcRet.s)
         /\ vcRet = re_search(FirstPattern(m), ContentOf(m).s)

\* A mail of another sender holds six digits; the code comes from the mail
\* of augmentcode.com behind it, by the first pattern and not by the digits
\* that stand first in its content.
C16_Witness ==
    /\ vcPc = "done"
    /\ vcLast = Answer(PyDict(<< <<"emails",
                  PyList(<<Mail(PyStr(FromOther), PyStr(CtBare)),
                           Mail(PyStr(FromAugment), PyStr(CtLate))>>)>> >>))
    /\ vcRet = PyStr(<<"1", "2", "3", "4", "5", "6">>)

(***************************************************************************)
(*                Waiting for the onboard page: WaitSpec                   *)
(* The function runs on its own: its statements are executed one after the *)
(* other, every send() ends (C4) and every sleep ends, hence the weak      *)
(* fairness of its three steps.                                            *)
(***************************************************************************)
WaitSpecInit ==
    /\ CDPInit /\ SfInit /\ sfFile = FileAbsent /\ ApiInit
    /\ GnInit /\ VcInit /\ WrInit /\ MnInit /\ CfInit /\ CsInit

WaitNext ==
    \/ WrConnect
    \/ WrTest
    \/ WrPoll

WaitSpec ==
    /\ WaitSpecInit
    /\ [][WaitNext]_vars
    /\ WF_vars(WrConnect)
    /\ WF_vars(WrTest)
    /\ WF_vars(WrPoll)

\* The targets of a message, when it has the expected shape.
TargetsOf(o) ==
    IF /\ o # PyNone
       /\ o.k = "resp"
       /\ IsObjectWith(o.body, "result")
       /\ IsObjectWith(At(o.body, "result"), "targetInfos")
       /\ At(At(o.body, "result"), "targetInfos").t = "list"
      THEN At(At(o.body, "result"), "targetInfos").items
      ELSE <<>>

IsPageTarget(x) == x.t = "dict" /\ HasKey(x, "type") /\ At(x, "type") = TypePage

OnboardPage(x) ==
    /\ IsPageTarget(x)
    /\ HasKey(x, "url")
    /\ At(x, "url").t = "str"
    /\ Contains(At(x, "url").s, OnboardPath)

\* A target the scan cannot get past: it is no object, or it is a page
\* whose 'url' is no text.
UnreadableTarget(x) ==
    \/ x.t # "dict"
    \/ IsPageTarget(x) /\ HasKey(x, "url") /\ At(x, "url").t # "str"

\* The poll observes a page target on the onboard URL.
Observes(o) ==
    \E i \in 1..Len(TargetsOf(o)) :
      /\ OnboardPage(TargetsOf(o)[i])
      /\ \A j \in 1..(i - 1) : ~UnreadableTarget(TargetsOf(o)[j])

C17_ResultMatchesPolls ==
    /\ wrPc \in {"test", "poll"} => ~Observes(wrLast)
    /\ wrPc = "done" =>
         \/ wrRet = PyTrue /\ Observes(wrLast)
         \/ /\ wrRet = PyFalse
            /\ ~Observes(wrLast)
            /\ wrElapsed >= max_wait_seconds

C17_Steps ==
    /\ wrPc = "test" =>
         IF wrElapsed < max_wait_seconds
           THEN wrPc' = "poll"
           ELSE wrPc' = "done" /\ wrRet' = PyFalse
    /\ wrPc = "poll" =>
         /\ Observes(wrLast') => (wrPc' = "done" /\ wrRet' = PyTrue)
         /\ wrLast'.k = "None" => wrPc' = "test"

\* C17: True is returned by the poll that observes a page target on the
\* onboard URL and only by it; False is returned at the first while test
\* that finds max_wait_seconds elapsed and only there; after a poll without
\* answer the loop goes back to its test; the function always ends.
C17_WaitForOnboard ==
    /\ []C17_ResultMatchesPolls
    /\ [][C17_Steps]_vars
    /\ <>(wrPc \in {"done", "raised"})

\* After a poll without answer, a later poll observed the page.
C17_Witness ==
    /\ wrPc = "done"
    /\ wrRet = PyTrue
    /\ wrRetried
    /\ Len(TargetsOf(wrLast)) = 2

(***************************************************************************)
(*                      main, steps 5 to 12: MainSpec                      *)
(* main runs its statements one after the other and every helper ends;     *)
(* only the user decides when Enter is pressed, so MnEnter is not fair.     *)
(***************************************************************************)
MainSpecInit ==
    /\ CDPInit /\ SfInit /\ sfFile = FileAbsent /\ ApiInit
    /\ GnInit /\ VcInit /\ WrInit /\ MnInit /\ CfInit /\ CsInit

MainNext ==
    \/ MnGetEmail
    \/ MnSignin
    \/ MnFillCode
    \/ MnWaitRedirect
    \/ MnPaymentLink
    \/ MnSessionCookie
    \/ MnDecide
    \/ MnEnter
    \/ MnManualClose

MainSpec ==
    /\ MainSpecInit
    /\ [][MainNext]_vars
    /\ WF_vars(MnGetEmail) /\ WF_vars(MnSignin) /\ WF_vars(MnFillCode)
    /\ WF_vars(MnWaitRedirect) /\ WF_vars(MnPaymentLink)
    /\ WF_vars(MnSessionCookie) /\ WF_vars(MnDecide)
    /\ WF_vars(MnManualClose)

\* The link and the cookie were both obtained and written to their files.
BothSaved ==
    /\ mnLink # PyNone /\ mnLink # EmptyStr /\ mnLinkFile = WrittenFile
    /\ mnSession # PyNone /\ mnSession # EmptyStr
    /\ mnSessionFile = WrittenFile

C18_CloseMatchesResults ==
    /\ mnClose = "auto" => (BothSaved /\ ~mnEntered)
    /\ mnClose = "manual" => (~BothSaved /\ mnEntered)
    /\ mnPc \in {"input", "manual"} => ~BothSaved
    /\ mnPc = "end" => mnClose # "none"

SelectSpecInit ==
    /\ CDPInit /\ SfInit /\ sfFile = FileAbsent /\ ApiInit
    /\ GnInit /\ VcInit /\ WrInit /\ MnInit /\ CfInputs /\ CsInit

SelectNext ==
    \/ CfGetDocument
    \/ CfQuery
    \/ CfLoopEnd
    \/ CfAfterLoop
    \/ CfBoxModel
    \/ CfJsClick
    \/ CfMouseEvent

SelectSpec == SelectSpecInit /\ [][SelectNext]_vars

\* The node list of an answer to DOM.querySelectorAll, when it has one.
NodesOf(o) ==
    IF /\ o # PyNone
       /\ o.k = "resp"
       /\ IsObjectWith(o.body, "result")
       /\ IsObjectWith(At(o.body, "result"), "nodeIds")
       /\ At(At(o.body, "result"), "nodeIds").t = "list"
      THEN At(At(o.body, "result"), "nodeIds").items
      ELSE <<>>

\* The function has left its loop over the selectors and has not raised.
PastLoop == cfPc \in {"after", "box", "js", "mouse", "done"}

\* C19: the selectors are queried in the order of the list; the loop goes on
\* only after a query without a node; it stops at the first query that
\* gives a non-empty node list and takes the first node of that list; when
\* every selector was queried and none gave a node, no mouse event is
\* dispatched and the result is False (None for find_cloudflare_element).
C19_SelectorsInOrder ==
    /\ Len(cfTried) <= Len(Selectors(cfFn))
    /\ cfTried = SubSeq(Selectors(cfFn), 1, Len(cfTried))
    /\ cfPc = "loop" => NodesOf(cfLast) = <<>>
    /\ (PastLoop /\ NodesOf(cfLast) # <<>>) =>
         IF cfFn = "find"
           THEN cfRet = NodesOf(cfLast)[1]
           ELSE /\ cfNode = NodesOf(cfLast)[1]
                /\ cfMatched = cfTried[Len(cfTried)]
    /\ (PastLoop /\ NodesOf(cfLast) = <<>>) =>
         /\ cfTried \in {<<>>, Selectors(cfFn)}
         /\ cfMouse = 0
         /\ cfPc \in {"after", "done"}
         /\ cfPc = "done" => cfRet = NotFound(cfFn)
    /\ cfMouse > 0 => NodesOf(cfLast) # <<>>

\* Two selectors gave nothing, the third gave two nodes: the first one was
\* clicked with the mouse.
C19_Witness ==
    /\ cfFn = "click"
    /\ cfPc = "done"
    /\ cfRet = PyTrue
    /\ cfMouse = MouseEvents
    /\ cfMatched = ClickSelectors[3]
    /\ Len(NodesOf(cfLast)) = 2
    /\ cfNode = PyInt(7)

(***************************************************************************)
(*                 Two runs saving a suffix: RaceSpec                      *)
(***************************************************************************)
RaceSpecInit ==
    /\ CDPInit
    /\ sfFile \in RaceFiles
    /\ sfEmail = PyNone /\ sfRet = PyNone /\ sfLog = "init" /\ sfWrote = FALSE
    /\ ApiInit
    /\ GnInit /\ VcInit /\ WrInit /\ MnInit /\ CfInit /\ CsInit

RaceNext ==
    \/ CsReadStep
    \/ CsOpenStep
    \/ CsDumpStep

RaceSpec == RaceSpecInit /\ [][RaceNext]_vars

\* Both calls have returned True.
BothSaved2 == \A p \in Procs : csPc[p] = "done" /\ csRet[p] = PyTrue

SuffixOfRun(p) == SuffixOf(CsEmail(p).s)

Holds(file, s) == \E i \in 1..Len(Stored(file)) : Stored(file)[i] = s

====
